---- MODULE Spec2Model ----
(***************************************************************************)
(* A model of music21/noteworthy/binaryTranslate.py: the decoder of binary *)
(* NoteWorthy Composer (.nwc) buffers (NWCConverter, NWCStaff, NWCObject)  *)
(* and the renderer of the decoded records to .nwctxt lines.               *)
(*                                                                         *)
(* Bytes are the integers 0..255 and a bytes object is a sequence of them. *)
(* Python positions are 0-based; the sequences here are 1-based, so byte   *)
(* number i of the buffer is fc[i + 1].  The code runs under Python 3 (it  *)
(* indexes bytes to integers and calls bytes.index(0, ...)), and values    *)
(* whose Python type decides a comparison or a concatenation carry their   *)
(* type: [t |-> "bytes" | "str" | "None" | "bool", v |-> ...].             *)
(***************************************************************************)
EXTENDS Integers, Sequences, FiniteSets, TLC

Min(a, b) == IF a < b THEN a ELSE b

Max(a, b) == IF a > b THEN a ELSE b

\* F applied to the value v: a local name for a value used several times
With(v, F(_)) == F(v)

\* ------------------------------------------------------------------------
\* Python values
\* ------------------------------------------------------------------------

PyNone == [t |-> "None", v |-> <<>>]

PyTrue == [t |-> "bool", v |-> <<1>>]

PyBytes(s) == [t |-> "bytes", v |-> s]

PyStr(s) == [t |-> "str", v |-> s]

\* bytes.decode('latin_1'): every byte becomes the code point of the same
\* number; the result is a str, no longer a bytes object.
DecodeLatin1(b) == [t |-> "str", v |-> b.v]

\* str + x: only a str can be concatenated to a str.
CanConcatStr(x) == x.t = "str"

\* fc[a:b] for 0 <= a, b: the bytes at positions a .. b-1 that exist.
PySlice(fc, a, b) ==
  LET hi == Min(b, Len(fc))
  IN  IF a >= hi THEN <<>> ELSE SubSeq(fc, a + 1, hi)

\* x & (1 << k) != 0
BitSet(x, k) == (x \div (2 ^ k)) % 2 = 1

\* ------------------------------------------------------------------------
\* Primitive reads of NWCConverter.  Each returns the value, the cursor
\* after the call and the exception raised ("none" when it returns).
\* ------------------------------------------------------------------------

\* the two bytes taken high byte first
UnpackBEShort(b) ==
  LET u == b[2] + 256 * b[1]
  IN  IF u >= 32768 THEN u - 65536 ELSE u

\* struct.unpack('<h', b)[0] of two bytes
UnpackLEShort(b) ==
  LET u == b[1] + 256 * b[2]
  IN  IF u >= 32768 THEN u - 65536 ELSE u

readLEShort(fc, pp, updateParsePosition) ==
  LET b == PySlice(fc, pp, pp + 2)
  IN  IF Len(b) # 2
      THEN [val |-> 0, pos |-> pp, err |-> "struct.error"]
      ELSE [val |-> UnpackLEShort(b),
            pos |-> IF updateParsePosition THEN pp + 2 ELSE pp,
            err |-> "none"]

\* a byte read that gives 0 when no byte is left
byteToIntPadded(fc, pp, updateParsePosition) ==
  LET b == PySlice(fc, pp, pp + 1)
  IN  [val |-> IF Len(b) # 1 THEN 0 ELSE b[1],
       pos |-> IF updateParsePosition THEN pp + 1 ELSE pp,
       err |-> "none"]

byteToInt(fc, pp, updateParsePosition) ==
  LET b == PySlice(fc, pp, pp + 1)
  IN  IF Len(b) # 1
      THEN [val |-> 0, pos |-> pp, err |-> "TypeError"]
      ELSE [val |-> b[1],
            pos |-> IF updateParsePosition THEN pp + 1 ELSE pp,
            err |-> "none"]

byteToSignedInt(fc, pp, updateParsePosition) ==
  LET r == byteToInt(fc, pp, updateParsePosition)
  IN  IF r.err = "none" /\ r.val > 127
      THEN [r EXCEPT !.val = r.val - 256]
      ELSE r

readBytes(fc, pp, bytesToRead, updateParsePosition) ==
  [val |-> PySlice(fc, pp, pp + bytesToRead),
   pos |-> IF updateParsePosition THEN pp + bytesToRead ELSE pp,
   err |-> "none"]

\* fc.index(0, pp), with -1 for the ValueError the code catches
NulPosition(fc, pp) ==
  IF \E i \in pp .. Len(fc) - 1 : fc[i + 1] = 0
  THEN CHOOSE i \in pp .. Len(fc) - 1 :
         fc[i + 1] = 0 /\ \A j \in pp .. i - 1 : fc[j + 1] # 0
  ELSE -1

readToNUL(fc, pp, updateParsePosition) ==
  LET nulPosition == NulPosition(fc, pp)
  IN  [val |-> IF nulPosition = -1
               THEN PySlice(fc, pp, Len(fc))
               ELSE PySlice(fc, pp, nulPosition),
       pos |-> IF updateParsePosition THEN nulPosition + 1 ELSE pp,
       err |-> "none"]

skipBytes(pp, numBytes) == pp + numBytes

RECURSIVE advanceToNotNUL(_, _)
advanceToNotNUL(fc, pp) ==
  IF PySlice(fc, pp, pp + 1) = <<0>> THEN advanceToNotNUL(fc, pp + 1) ELSE pp

\* ------------------------------------------------------------------------
\* Sequences of reads.  A method's body is a list of field reads, each
\* [k, n, dst, val]: k the primitive ("nul", "short", "byte", "sbyte",
\* "bytes", "skip", "notnul", "set", "font"), n its byte count, dst the
\* attribute that receives the value ("" when the value is dropped) and val
\* the value a plain assignment stores.  The run state is [pos, err, dec, f]:
\* cursor, exception ("none" while running), the set of calls that moved the
\* cursor backwards, and the attributes of the object being filled.
\* ------------------------------------------------------------------------

Rd(k, dst) == [k |-> k, n |-> 0, dst |-> dst, val |-> PyNone]

RdN(k, n, dst) == [k |-> k, n |-> n, dst |-> dst, val |-> PyNone]

Asg(dst, val) == [k |-> "set", n |-> 0, dst |-> dst, val |-> val]

TimesNewRoman == <<84, 105, 109, 101, 115, 32, 78, 101, 119, 32, 82, 111, 109, 97, 110>>

\* the entry of one pass of the font loop of NWCConverter.parseHeader, from
\* the results of its five reads; back: readToNUL moved the cursor backwards
FontFields(pp, name, style, size, unused, charset) ==
  LET bad == IF style.err # "none" THEN style
             ELSE IF size.err # "none" THEN size
             ELSE IF unused.err # "none" THEN unused
             ELSE charset
  IN  IF bad.err # "none"
      THEN [val |-> PyNone, pos |-> bad.pos, err |-> bad.err,
            back |-> name.pos < pp]
      ELSE [val |-> [name    |-> IF name.val = <<>> THEN PyBytes(TimesNewRoman)
                                 ELSE PyBytes(name.val),
                     style   |-> style.val,
                     size    |-> IF size.val = 0 THEN 12 ELSE size.val,
                     charset |-> charset.val],
            pos |-> charset.pos, err |-> "none", back |-> name.pos < pp]

\* one pass of the font loop: the name, then four bytes one after the other
\* (a byte read that raises leaves the cursor where it was)
FontEntry(fc, pp) ==
  With(readToNUL(fc, pp, TRUE),
       LAMBDA name :
         FontFields(pp, name,
                    byteToInt(fc, name.pos, TRUE),
                    byteToInt(fc, name.pos + 1, TRUE),
                    byteToInt(fc, name.pos + 2, TRUE),
                    byteToInt(fc, name.pos + 3, TRUE)))

AsBytes(x) == [x EXCEPT !.val = PyBytes(x.val)]

\* the primitive a read names, called at cursor pp
ReadOne(fc, pp, op) ==
  CASE op.k = "nul"    -> AsBytes(readToNUL(fc, pp, TRUE))
    [] op.k = "short"  -> readLEShort(fc, pp, TRUE)
    [] op.k = "byte"   -> byteToInt(fc, pp, TRUE)
    [] op.k = "sbyte"  -> byteToSignedInt(fc, pp, TRUE)
    [] op.k = "bytes"  -> AsBytes(readBytes(fc, pp, op.n, TRUE))
    [] op.k = "skip"   -> [val |-> 0, pos |-> skipBytes(pp, op.n), err |-> "none"]
    [] op.k = "notnul" -> [val |-> 0, pos |-> advanceToNotNUL(fc, pp),
                           err |-> "none"]
    [] op.k = "font"   -> FontEntry(fc, pp)
    [] OTHER           -> [val |-> op.val, pos |-> pp, err |-> "none"]

\* the result q of a read stored in the run state
Store(st, op, q) ==
  LET back == IF op.k = "font" THEN q.back ELSE q.pos < st.pos
  IN  [st EXCEPT
         !.pos = q.pos,
         !.err = q.err,
         !.dec = IF back THEN st.dec \cup {"readToNUL"} ELSE st.dec,
         !.f   = IF q.err # "none" \/ op.dst = "" THEN st.f
                 ELSE IF op.k = "font"
                      THEN [st.f EXCEPT !.fonts = Append(st.f.fonts, q.val)]
                      ELSE [st.f EXCEPT ![op.dst] = q.val]]

ApplyRead(fc, st, op) ==
  IF st.err # "none" THEN st
  ELSE Store(st, op, ReadOne(fc, st.pos, op))

RECURSIVE RunReads(_, _, _)
RunReads(fc, st, ops) ==
  IF ops = <<>> THEN st
  ELSE RunReads(fc, ApplyRead(fc, st, Head(ops)), Tail(ops))

\* ------------------------------------------------------------------------
\* Preamble and version
\* ------------------------------------------------------------------------

Header1 == <<91, 78, 111, 116, 101, 87, 111, 114, 116, 104, 121, 32, 65, 114, 116, 87, 97, 114, 101, 93>>

Header2 == <<91, 78, 111, 116, 101, 87, 111, 114, 116, 104, 121, 32, 67, 111, 109, 112, 111, 115, 101, 114, 93>>

\* NWCConverter.isValidNWCFile: header1 is compared with a bytes literal,
\* header2 (a bytes object) with a str literal.
isValidNWCFile(fc, pp, updateParsePosition) ==
  LET storedPP == pp
      header1  == readToNUL(fc, 0, TRUE)
      junk1    == readToNUL(fc, header1.pos, TRUE)
      junk2    == readToNUL(fc, junk1.pos, TRUE)
      header2  == readToNUL(fc, junk2.pos, TRUE)
      back1    == (IF storedPP > 0 THEN {"isValidNWCFile"} ELSE {})
      backN(a, b) == IF b.pos < a THEN {"readToNUL"} ELSE {}
  IN  IF PyBytes(header1.val) # PyBytes(Header1)
      THEN [val |-> FALSE, pos |-> header1.pos,
            dec |-> back1 \cup backN(0, header1)]
      ELSE
        LET d == back1 \cup backN(0, header1) \cup backN(header1.pos, junk1)
                   \cup backN(junk1.pos, junk2) \cup backN(junk2.pos, header2)
        IN  IF PyBytes(header2.val) # PyStr(Header2)
            THEN [val |-> FALSE, pos |-> header2.pos, dec |-> d]
            ELSE [val |-> TRUE,
                  pos |-> IF ~updateParsePosition /\ storedPP # 0
                          THEN storedPP ELSE header2.pos,
                  dec |-> d]

VersionOffset == 45

DefaultVersion == 201

\* the table with two results exchanged
versionFromHexExchanged(code) ==
  CASE code = 276 -> 120 [] code = 286 -> 130 [] code = 306 -> 150
    [] code = 311 -> 155 [] code = 326 -> 175 [] code = 331 -> 170
    [] code = 512 -> 200 [] code = 513 -> 201 [] OTHER -> 0

\* NWCConverter.versionFromHex, 0 for a code that is not a key
versionFromHex(code) ==
  CASE code = 276 -> 120    \* 0x0114
    [] code = 286 -> 130    \* 0x011E
    [] code = 306 -> 150    \* 0x0132
    [] code = 311 -> 155    \* 0x0137
    [] code = 326 -> 170    \* 0x0146
    [] code = 331 -> 175    \* 0x014B
    [] code = 512 -> 200    \* 0x0200
    [] code = 513 -> 201    \* 0x0201
    [] OTHER      -> 0

\* NWCConverter.fileVersion; version 0 stands for "self.version not assigned"
fileVersion(fc, pp, updateParsePosition) ==
  LET storedPP       == pp
      fileVersionRaw == readLEShort(fc, VersionOffset, updateParsePosition)
      back           == IF VersionOffset < storedPP THEN {"fileVersion"} ELSE {}
  IN  IF fileVersionRaw.err # "none"
      THEN [val |-> 0, pos |-> VersionOffset, err |-> fileVersionRaw.err,
            dec |-> back]
      ELSE [val |-> IF versionFromHex(fileVersionRaw.val) # 0
                    THEN versionFromHex(fileVersionRaw.val)
                    ELSE DefaultVersion,
            pos |-> IF updateParsePosition THEN fileVersionRaw.pos ELSE storedPP,
            err |-> "none",
            dec |-> IF updateParsePosition THEN back ELSE {}]

\* ------------------------------------------------------------------------
\* NWCConverter.parseHeader after the two calls above
\* ------------------------------------------------------------------------

DefaultMargins == <<48, 46, 48, 32, 48, 46, 48, 32, 48, 46, 48, 32, 48, 46, 48>>

Maestro == <<77, 97, 101, 115, 116, 114, 111>>

fontCount(version) ==
  IF version > 170 THEN 12 ELSE IF version > 130 THEN 10 ELSE 0

HeaderReads(version) ==
     << RdN("skip", 4, ""), Rd("nul", "user"), Rd("nul", ""), RdN("skip", 10, ""),
        Rd("nul", "title"), Rd("nul", "author") >>
  \o (IF version >= 200 THEN << Rd("nul", "lyricist") >>
                        ELSE << Asg("lyricist", PyNone) >>)
  \o << Rd("nul", "copyright1"), Rd("nul", "copyright2"), Rd("nul", "comment"),
        Rd("nul", "extendLastSystem"), Rd("nul", "increaseNoteSpacing"),
        Rd("nul", ""), Rd("nul", "measureNumbers"), Rd("nul", ""),
        Rd("short", "measureStart") >>
  \o (IF version >= 130 THEN << Rd("nul", "margins") >>
                        ELSE << Asg("margins", PyStr(DefaultMargins)) >>)
  \o << Rd("nul", "sins"), Rd("nul", "") >>
  \o (IF version >= 130
      THEN << Rd("nul", "groupVisibility"), Rd("nul", "allowLayering") >>
      ELSE << Asg("groupVisibility", PyTrue), Asg("allowLayering", PyTrue) >>)
  \o (IF version >= 200 THEN << Rd("nul", "notationTypeface") >>
                        ELSE << Asg("notationTypeface", PyStr(Maestro)) >>)
  \o << Rd("short", "staffHeight"), Rd("notnul", ""), RdN("skip", 2, ""),
        Asg("fonts", <<>>) >>
  \o [i \in 1 .. fontCount(version) |-> Rd("font", "fonts")]
  \o << Rd("byte", "titlePageInfo"), Rd("byte", "staffLabels"),
        Rd("short", "pageNumberStart") >>
  \o (IF version >= 200 THEN << RdN("skip", 1, "") >> ELSE << >>)
  \o << Rd("byte", "numberOfStaves"), RdN("skip", 1, "") >>

\* the attributes NWCConverter.__init__ sets
NWCConverterInit ==
  [ version |-> 200, numberOfStaves |-> 0, titlePageInfo |-> 0,
    pageNumberStart |-> 0, comment |-> PyNone, fonts |-> <<>>,
    lyricist |-> PyNone, groupVisibility |-> PyNone, allowLayering |-> PyNone,
    margins |-> PyNone, notationTypeface |-> PyNone,
    extendLastSystem |-> PyNone, copyright1 |-> PyNone, copyright2 |-> PyNone,
    increaseNoteSpacing |-> PyNone, author |-> PyNone, title |-> PyNone,
    measureStart |-> PyNone, measureNumbers |-> PyNone, staffLabels |-> PyNone,
    sins |-> PyNone, user |-> PyNone, staffHeight |-> 0 ]

\* ------------------------------------------------------------------------
\* NWCStaff.parseHeader
\* ------------------------------------------------------------------------

\* The instrument-name table constants.MidiInstruments: the module
\* music21/noteworthy/constants.py is not among the sources, so the table
\* is cut to the first two and the last two General MIDI names.
MidiInstruments ==
  << <<65, 99, 111, 117, 115, 116, 105, 99, 32, 71, 114, 97, 110, 100, 32, 80, 105, 97, 110, 111>>,
     <<66, 114, 105, 103, 104, 116, 32, 65, 99, 111, 117, 115, 116, 105, 99, 32, 80, 105, 97, 110, 111>>,
     <<65, 112, 112, 108, 97, 117, 115, 101>>,
     <<71, 117, 110, 115, 104, 111, 116>> >>

Gunshot == <<71, 117, 110, 115, 104, 111, 116>>

\* seq[i] of a Python list for -len <= i < len
PyIndex(seq, i) == IF i < 0 THEN seq[Len(seq) + i + 1] ELSE seq[i + 1]

\* the attributes NWCStaff.__init__ sets; instruPatch is the local of
\* parseHeader
NWCStaffInit ==
  [ lyrics |-> <<>>, objects |-> <<>>, instrumentName |-> PyNone,
    group |-> PyNone, layerWithNextStaff |-> PyNone, transposition |-> PyNone,
    partVolume |-> PyNone, stereoPan |-> PyNone, color |-> 0,
    alignSyllable |-> PyNone, numberOfLyrics |-> 0, numberOfObjects |-> 0,
    lines |-> 0, name |-> PyNone, staffOffset |-> 0, label |-> PyNone,
    lyricAlignment |-> 0, instruPatch |-> 0 ]

StaffNameReads(version) ==
     << Rd("nul", "name") >>
  \o (IF version >= 200
      THEN << Rd("nul", "label"), Rd("nul", "instrumentName") >>
      ELSE << Asg("label", PyNone), Asg("instrumentName", PyNone) >>)
  \o << Rd("nul", "group") >>

StaffReads200 ==
  << RdN("skip", 27, ""), Rd("byte", "lines"), Rd("short", "layerWithNextStaff"),
     Rd("short", "transposition"), Rd("short", "partVolume"),
     Rd("short", "stereoPan"), Rd("byte", "color"), Rd("short", "alignSyllable"),
     Rd("short", "numberOfLyrics") >>

StaffReads175Tail ==
  << RdN("skip", 10, ""), Rd("sbyte", "transposition"), RdN("skip", 6, ""),
     Rd("short", "alignSyllable"), Rd("short", "numberOfLyrics") >>

\* lines 549-551: the patch byte selects the instrument name
SetInstrumentFromPatch(st) ==
  IF st.err # "none" THEN st
  ELSE IF st.f.instruPatch < Len(MidiInstruments)
       THEN [st EXCEPT !.f.instrumentName =
                         PyStr(PyIndex(MidiInstruments, st.f.instruPatch - 1))]
       ELSE st

StaffLyricReads(st) ==
  IF st.err # "none" THEN <<>>
  ELSE IF st.f.numberOfLyrics > 0
       THEN << Rd("short", "lyricAlignment"), Rd("short", "staffOffset") >>
       ELSE << Asg("lyricAlignment", 0), Asg("staffOffset", 0) >>

\* lines 533-556: what follows the names, by layout
StaffBody(fc, names, version) ==
  IF version >= 200 THEN RunReads(fc, names, StaffReads200)
  ELSE IF version = 175
       THEN RunReads(fc,
              SetInstrumentFromPatch(
                RunReads(fc, names,
                         << RdN("skip", 11, ""), Rd("byte", "instruPatch") >>)),
              StaffReads175Tail)
       ELSE names

StaffParseHeader(fc, st0, version) ==
  With(StaffBody(fc, RunReads(fc, st0, StaffNameReads(version)), version),
       LAMBDA body : RunReads(fc, body, StaffLyricReads(body)))

\* ------------------------------------------------------------------------
\* NWCObject
\* ------------------------------------------------------------------------

\* the attributes NWCObject.__init__ sets; dumpMethod names the closure
NWCObjectInit ==
  [ type |-> "None", placement |-> 0, pos |-> 0, style |-> 0,
    localRepeatCount |-> 0, data |-> 0, data1 |-> PyNone, data2 |-> PyNone,
    data3 |-> PyNone, delay |-> 0, clefType |-> 0, offset |-> 0, visible |-> 0,
    duration |-> 0, durationStr |-> <<>>, font |-> 0, sharps |-> 0,
    octaveShift |-> 0, attribute1 |-> PyNone, attribute2 |-> 0,
    stemLength |-> 0, dots |-> 0, bits |-> 0, denominator |-> 0,
    tieInfo |-> "", volume |-> 0, base |-> 0, velocity |-> 0, count |-> 0,
    name |-> PyNone, value |-> 0, flats |-> 0, numerator |-> 0,
    alterationStr |-> "", dotAttribute |-> 0, text |-> PyNone,
    dumpMethod |-> "genericDumpMethod" ]

Raise(st, e) == IF st.err # "none" THEN st ELSE [st EXCEPT !.err = e]

\* x[i] of a bytes object or None: the exception a subscript raises
SubscriptErr(x, i) ==
  IF x.t = "None" THEN "TypeError"
  ELSE IF i >= Len(x.v) THEN "IndexError" ELSE "none"

durationValues == << "Whole", "Half", "4th", "8th", "16th", "32nd", "64th" >>

\* the dots with the single-dot bit tested first
DotsSingleFirst(ordDot) ==
  IF BitSet(ordDot, 2) THEN 1 ELSE IF BitSet(ordDot, 0) THEN 2 ELSE 0

\* lines 877-882: the dots the dot-attribute byte stands for
Dots(ordDot) ==
  IF BitSet(ordDot, 0) THEN 2 ELSE IF BitSet(ordDot, 2) THEN 1 ELSE 0

\* NWCObject.setDurationForObject on the attributes o: [val, err, o]
setDurationForObject(o) ==
  IF o.duration >= Len(durationValues)
  THEN [err |-> "IndexError", o |-> o, val |-> <<>>]
  ELSE
    LET src  == IF o.type = "Note" THEN o.attribute1 ELSE o.data2
        at   == IF o.type = "Note" THEN 0 ELSE 3
        e1   == SubscriptErr(src, at)
        e2   == IF o.type = "Note" THEN SubscriptErr(src, 1) ELSE "none"
    IN  IF e1 # "none" THEN [err |-> e1, o |-> o, val |-> <<>>]
        ELSE IF e2 # "none"
        THEN [err |-> e2, o |-> [o EXCEPT !.dotAttribute = src.v[at + 1]],
              val |-> <<>>]
        ELSE
          LET ordDot == src.v[at + 1]
              grace  == IF o.type = "Note" THEN BitSet(src.v[2], 5) ELSE FALSE
              dots   == Dots(ordDot)
          IN  [err |-> "none",
               o   |-> [o EXCEPT !.dotAttribute = ordDot, !.dots = dots],
               val |-> << durationValues[o.duration + 1] >>
                       \o (IF dots = 1 THEN << ",Dotted" >>
                           ELSE IF dots = 2 THEN << ",DblDotted" >> ELSE << >>)
                       \o (IF grace THEN << ",Grace" >> ELSE << >>)]

alterationTexts == << "#", "b", "n", "##", "bb", "" >>

Typed(st, type) == [st EXCEPT !.f.type = type]

Dumps(st, dm) ==
  IF st.err # "none" THEN st ELSE [st EXCEPT !.f.dumpMethod = dm]

clef(fc, st, version) ==
  Dumps(RunReads(fc, Typed(st, "Clef"),
                 << Rd("short", "clefType"), Rd("short", "octaveShift") >>),
        "clef")

keySig(fc, st, version) ==
  Dumps(RunReads(fc, Typed(st, "KeySig"),
                 << Rd("byte", "flats"), RdN("skip", 1, ""), Rd("byte", "sharps"),
                    RdN("skip", 7, "") >>),
        "keySig")

barline(fc, st, version) ==
  Dumps(RunReads(fc, Typed(st, "Barline"),
                 << Rd("byte", "style"), Rd("byte", "localRepeatCount") >>),
        "barline")

ending(fc, st, version) ==
  Dumps(RunReads(fc, Typed(st, "Ending"),
                 << Rd("byte", "style"), RdN("skip", 1, "") >>),
        "ending")

instrument(fc, st, version) ==
  RunReads(fc, Typed(st, "Instrument"),
           << RdN("skip", 8, ""), Rd("nul", "name"), RdN("skip", 1, ""),
              RdN("skip", 8, "") >>)

\* 1 << bits: a negative count raises ValueError; the integers here are
\* 32 bits wide, so a count over 30 is kept as 0
timeSig(fc, st, version) ==
  With(RunReads(fc, Typed(st, "TimeSignature"),
                << Rd("short", "numerator"), Rd("short", "bits") >>),
       LAMBDA a :
         Dumps(RunReads(fc,
                        IF a.err # "none" THEN a
                        ELSE IF a.f.bits < 0 THEN Raise(a, "ValueError")
                        ELSE [a EXCEPT !.f.denominator =
                                         IF a.f.bits <= 30 THEN 2 ^ a.f.bits ELSE 0],
                        << Rd("short", "style") >>),
               "timeSig"))

tempo(fc, st, version) ==
  Dumps(RunReads(fc, Typed(st, "Tempo"),
                 << Rd("byte", "pos"), Rd("byte", "placement"),
                    Rd("short", "value"), Rd("byte", "base") >>
                 \o (IF version < 170 THEN << Rd("short", "") >> ELSE << >>)
                 \o << Rd("nul", "text") >>),
        "tempo")

dynamic(fc, st, version) ==
  RunReads(fc, Typed(st, "Dynamic"),
           IF version < 170 THEN << >>
           ELSE << Rd("byte", "pos"), Rd("byte", "placement"), Rd("byte", "style"),
                   Rd("short", "velocity"), Rd("short", "volume") >>)

\* the duration string and what follows the reads of note()
NoteFinish(st) ==
  IF st.err # "none" THEN st
  ELSE
    LET d == setDurationForObject(st.f)
    IN  IF d.err # "none" THEN [st EXCEPT !.f = d.o, !.err = d.err]
        ELSE
          LET alterationIndex == st.f.attribute2 % 8
              o == [d.o EXCEPT
                      !.durationStr = d.val,
                      !.alterationStr =
                         IF alterationIndex < Len(alterationTexts)
                         THEN alterationTexts[alterationIndex + 1] ELSE "",
                      !.tieInfo = IF BitSet(st.f.attribute1.v[1], 4) THEN "^" ELSE "",
                      !.dumpMethod = "note"]
          IN  [st EXCEPT !.f = o]

\* lines 907-918: position, accidental and the version's extra bytes
NoteTail(fc, a, version) ==
  IF version < 170 \/ a.err # "none" THEN a
  ELSE RunReads(fc, [a EXCEPT !.f.pos = -1 * a.f.pos],
                << Rd("byte", "attribute2") >>
                \o (IF version <= 170 THEN << RdN("bytes", 2, "data3") >>
                    ELSE << Asg("data3", PyNone) >>))

\* lines 919-923: the stem length
NoteStem(fc, b, version) ==
  IF version < 170 \/ b.err # "none" THEN b
  ELSE IF version >= 200 /\ BitSet(b.f.attribute2, 6)
       THEN RunReads(fc, b, << Rd("byte", "stemLength") >>)
       ELSE [b EXCEPT !.f.stemLength = 7]

note(fc, st, version) ==
  NoteFinish(
    NoteStem(fc,
      NoteTail(fc,
        IF version < 170 THEN Typed(st, "Note")
        ELSE RunReads(fc, Typed(st, "Note"),
               << Rd("byte", "duration"), RdN("bytes", 3, "data2"),
                  RdN("bytes", 2, "attribute1"), Rd("sbyte", "pos") >>),
        version),
      version))

\* the duration string of a rest and its renderer
RestFinish(a) ==
  IF a.err # "none" THEN a
  ELSE LET d == setDurationForObject(a.f)
       IN  IF d.err # "none" THEN [a EXCEPT !.f = d.o, !.err = d.err]
           ELSE [a EXCEPT !.f = [d.o EXCEPT !.durationStr = d.val,
                                            !.dumpMethod = "rest"]]

rest(fc, st, version) ==
  RestFinish(IF version <= 150 THEN Typed(st, "Rest")
             ELSE RunReads(fc, Typed(st, "Rest"),
                    << Rd("byte", "duration"), RdN("bytes", 5, "data2"),
                       Rd("short", "offset") >>))

pedal(fc, st, version) ==
  RunReads(fc, Typed(st, "Pedal"),
           IF version < 170 THEN << >>
           ELSE << Rd("byte", "pos"), Rd("byte", "placement"), Rd("byte", "style") >>)

flowDir(fc, st, version) ==
  RunReads(fc, Typed(st, "FlowDir"),
           (IF version >= 170
            THEN << Rd("byte", "pos"), Rd("byte", "placement") >>
            ELSE << Asg("pos", -8), Asg("placement", 1) >>)
           \o << Rd("short", "style") >>)

\* a MidiInstruction of 34 bytes in every version
mpcOfOneLength(fc, st, version) ==
  RunReads(fc, Typed(st, "MPC"),
           << Rd("byte", "pos"), Rd("byte", "placement"),
              RdN("bytes", 32, "data1") >>)

mpc(fc, st, version) ==
  RunReads(fc, Typed(st, "MPC"),
           << Rd("byte", "pos"), Rd("byte", "placement"),
              RdN("bytes", IF version = 175 THEN 32
                           ELSE IF version > 155 THEN 31 ELSE 32, "data1") >>)

\* line 1099: style & 0x0F
LowNibble(a) ==
  IF a.err # "none" THEN a ELSE [a EXCEPT !.f.style = a.f.style % 16]

tempoVariation(fc, st, version) ==
  IF version >= 170
  THEN RunReads(fc, Typed(st, "TempoVariation"),
                << Rd("byte", "pos"), Rd("byte", "placement"), Rd("byte", "style"),
                   Rd("byte", "delay") >>)
  ELSE RunReads(fc,
                LowNibble(RunReads(fc, Typed(st, "TempoVariation"),
                                   << Rd("byte", "style") >>)),
                << Rd("byte", "pos"), Rd("byte", "placement"),
                   Rd("byte", "delay") >>)

PosPlacementStyle(version) ==
     << Rd("byte", "pos") >>
  \o (IF version >= 170 THEN << Rd("byte", "placement") >>
                        ELSE << Asg("placement", 0) >>)
  \o << Rd("byte", "style") >>

dynamicVariation(fc, st, version) ==
  RunReads(fc, Typed(st, "DynamicVariation"), PosPlacementStyle(version))

performance(fc, st, version) ==
  RunReads(fc, Typed(st, "Performance"), PosPlacementStyle(version))

\* st.label is the label of the staff being decoded; inside a chord the
\* object's staffParent is the chord, an NWCObject, which has no label
TextFinish(a) ==
  IF a.err # "none" THEN a
  ELSE IF a.inChord THEN Raise(a, "AttributeError")
  ELSE IF a.label = PyNone
       THEN [a EXCEPT !.label = DecodeLatin1(a.f.text), !.f.text = PyNone]
       ELSE Dumps(a, "text")

textObj(fc, st, version) ==
  TextFinish(RunReads(fc, Typed(st, "Text"),
                      << Rd("byte", "pos"), Rd("byte", "data"), Rd("byte", "font"),
                         Rd("nul", "text") >>))

restChordMember(fc, st, version) ==
  RunReads(fc, Typed(st, "RestChordMember"),
           << Rd("short", "count"), RdN("skip", 8, "") >>)

NumObjMethods == 19

NoteworthyBinaryTranslateException == "NoteworthyBinaryTranslateException"

RECURSIVE parseObject(_, _, _)
RECURSIVE ParseChildren(_, _, _, _, _)

\* the loop of noteChordMember: n children, each a new NWCObject whose
\* staffParent is the chord
ParseChildren(fc, st, version, n, acc) ==
  IF n <= 0 \/ st.err # "none" THEN [st |-> st, kids |-> acc]
  ELSE
    With(parseObject(fc, [st EXCEPT !.f = NWCObjectInit, !.inChord = TRUE],
                     version),
         LAMBDA c :
           ParseChildren(fc, [c EXCEPT !.inChord = st.inChord], version, n - 1,
                         IF c.err # "none" THEN acc ELSE Append(acc, c.f)))

\* lines 1003-1004 and 1015-1016: the subscripts of data1 that can raise
ChordSubscriptErr(a, version) ==
  IF version = 175 THEN SubscriptErr(a.f.data1, 8)
  ELSE IF version >= 200 THEN SubscriptErr(a.f.data1, 7)
  ELSE "none"

\* lines 1003-1006: only the 175 layout has children
ChordNumberOfNotes(a, version) ==
  IF version = 175 /\ ChordSubscriptErr(a, version) = "none"
  THEN a.f.data1.v[9] ELSE 0

\* lines 1015-1021: the stem length
ChordStem(fc, a, version) ==
  IF a.err # "none" THEN a
  ELSE IF ChordSubscriptErr(a, version) # "none"
       THEN Raise(a, ChordSubscriptErr(a, version))
  ELSE IF version >= 200 /\ BitSet(a.f.data1.v[8], 6)
       THEN RunReads(fc, a, << Rd("byte", "stemLength") >>)
       ELSE [a EXCEPT !.f.stemLength = 7]

\* the chord after its children: data2 holds them
ChordFinish(b, k) ==
  IF b.err # "none" THEN b
  ELSE IF k.st.err # "none"
       THEN [k.st EXCEPT !.f = [b.f EXCEPT !.data2 = [t |-> "list", v |-> k.kids]]]
       ELSE [k.st EXCEPT !.f = [b.f EXCEPT !.data2 = [t |-> "list", v |-> k.kids],
                                           !.dumpMethod = "chord"]]

ChordBody(fc, a, b, version) ==
  ChordFinish(b, ParseChildren(fc, [b EXCEPT !.f.data2 = [t |-> "list", v |-> <<>>]],
                               version, ChordNumberOfNotes(a, version), <<>>))

noteChordMember(fc, st, version) ==
  With(RunReads(fc, Typed(st, "NoteChordMember"),
         << RdN("bytes", IF version <= 170 THEN 12
                         ELSE IF version = 175 THEN 10 ELSE 8, "data1") >>),
       LAMBDA a : ChordBody(fc, a, ChordStem(fc, a, version), version))

\* NWCObject.objMethods: the decoder at index objectType
objMethods(objectType, fc, st, version) ==
  CASE objectType = 0  -> clef(fc, st, version)
    [] objectType = 1  -> keySig(fc, st, version)
    [] objectType = 2  -> barline(fc, st, version)
    [] objectType = 3  -> ending(fc, st, version)
    [] objectType = 4  -> instrument(fc, st, version)
    [] objectType = 5  -> timeSig(fc, st, version)
    [] objectType = 6  -> tempo(fc, st, version)
    [] objectType = 7  -> dynamic(fc, st, version)
    [] objectType = 8  -> note(fc, st, version)
    [] objectType = 9  -> rest(fc, st, version)
    [] objectType = 10 -> noteChordMember(fc, st, version)
    [] objectType = 11 -> pedal(fc, st, version)
    [] objectType = 12 -> flowDir(fc, st, version)
    [] objectType = 13 -> mpc(fc, st, version)
    [] objectType = 14 -> tempoVariation(fc, st, version)
    [] objectType = 15 -> dynamicVariation(fc, st, version)
    [] objectType = 16 -> performance(fc, st, version)
    [] objectType = 17 -> textObj(fc, st, version)
    [] objectType = 18 -> restChordMember(fc, st, version)

\* lines 684-690: the decoder runs when the visibility byte was read
Dispatch(objectType, fc, v, version) ==
  IF v.err # "none" THEN v ELSE objMethods(objectType, fc, v, version)

\* the range test one entry short of the table
BadObjectTypeOffByOne(objectType) ==
  objectType >= NumObjMethods - 1 \/ objectType < 0

\* lines 680-682: the range test on the type tag
BadObjectType(objectType) == objectType >= NumObjMethods \/ objectType < 0

\* lines 680-690: the object once its type tag is read
ParseTagged(fc, st, version, objectType) ==
  IF objectType.err # "none"
  THEN [st EXCEPT !.err = objectType.err]
  ELSE IF BadObjectType(objectType.val)
  THEN [st EXCEPT !.pos = objectType.pos,
                  !.err = NoteworthyBinaryTranslateException]
  ELSE Dispatch(objectType.val, fc,
                IF version >= 170
                THEN RunReads(fc, [st EXCEPT !.pos = objectType.pos],
                              << Rd("byte", "visible") >>)
                ELSE [st EXCEPT !.pos = objectType.pos, !.f.visible = 0],
                version)

\* NWCObject.parseObject on a new object (st.f = NWCObjectInit)
parseObject(fc, st, version) ==
  With(readLEShort(fc, st.pos, TRUE),
       LAMBDA objectType : ParseTagged(fc, st, version, objectType))

\* ------------------------------------------------------------------------
\* State
\* ------------------------------------------------------------------------

\* the model follows a staff through at most this many top-level objects
MaxObjects == 3

\* the documents decoded have at most this many staves
MaxStaves == 2

VARIABLES
  fileContents,      \* NWCConverter.fileContents
  parsePosition,     \* NWCConverter.parsePosition
  conv,              \* the other attributes of the NWCConverter
  staves,            \* NWCConverter.staves
  pc,                \* where the run stands
  error,             \* the exception that ended the run, "none" otherwise
  thisStaff,         \* the NWCStaff being decoded
  staffI,            \* i of the loop of parseContent
  lyr,               \* the locals of NWCStaff.parseLyrics
  objs,              \* the locals of NWCStaff.parseObjects
  valid,             \* what isValidNWCFile returned ("unset" before the call)
  decreased,         \* the calls that moved parsePosition backwards so far
  lastObject,        \* the last top-level parseObject: tag, decoder, exception
  dropped,           \* how many decoded staves parseContent did not append
  started,           \* the loop indices parseStaff was called for
  dumpObjects,       \* dumpObjects of dumpToNWCText
  staffDumpObjects,  \* dumpObjects of NWCStaff.dump
  previousAlteration,\* NWCConverter.previousAlteration
  dumpPos,           \* staff and object the rendering has reached
  lastDump,          \* the last object rendered and its line
  call               \* the last primitive called directly, with its result

vars == << fileContents, parsePosition, conv, staves, pc, error, thisStaff,
           staffI, lyr, objs, valid, decreased, lastObject, dropped, started,
           dumpObjects, staffDumpObjects, previousAlteration, dumpPos, lastDump, call >>

decodeVars == << thisStaff, staffI, lyr, objs, valid, lastObject, dropped, started >>

dumpVars == << dumpObjects, staffDumpObjects, previousAlteration, dumpPos,
               lastDump >>

LyrInit ==
  [ i |-> 0, lyrics |-> <<>>, syllables |-> <<>>, lyricBlockSize |-> 0,
    parsePositionStart |-> 0, continueIt |-> FALSE, maxRead |-> 0,
    slotStart |-> 0, sizeRead |-> FALSE, scanEnd |-> 0, last |-> "none" ]

ObjsInit == [ i |-> 0, objects |-> <<>> ]

NoObject ==
  [ tag |-> -1, type |-> "None", err |-> "none", read |-> FALSE, at |-> 0 ]

\* the call before the last one
NoPrev ==
  [ op |-> "none", upd |-> TRUE, before |-> 0, n |-> 0, val |-> 0, err |-> "none" ]

NoCall ==
  [ op |-> "none", upd |-> TRUE, before |-> 0, n |-> 0, val |-> 0, err |-> "none",
    prev |-> NoPrev ]

\* previousAlteration = {}: no pitch class has an entry ("None" is what
\* dict.get returns for a missing key)
NoAlteration == [ p \in 0 .. 6 |-> "None" ]

\* nothing rendered yet
NoDump ==
  [ staff |-> -1, obj |-> -1, line |-> [k |-> "none"], before |-> NoAlteration ]

\* the run state the read sequences work on
RunState(f, label) ==
  [ pos |-> parsePosition, err |-> "none", dec |-> {}, f |-> f,
    label |-> label, inChord |-> FALSE ]

\* ------------------------------------------------------------------------
\* NWCConverter.parseContent, step by step
\* ------------------------------------------------------------------------

\* line 329 (the buffers here do not start with the [NWZ] marker)
ParseContentStart ==
  /\ pc = "parseContent"
  /\ parsePosition' = 0
  /\ decreased' = IF parsePosition > 0 THEN decreased \cup {"parseContent"}
                  ELSE decreased
  /\ pc' = "parseHeader"
  /\ UNCHANGED << fileContents, conv, staves, error, decodeVars, dumpVars, call >>

\* line 347: the value isValidNWCFile returns is dropped
CheckValid ==
  /\ pc = "parseHeader"
  /\ LET r == isValidNWCFile(fileContents, parsePosition, TRUE)
     IN  /\ parsePosition' = r.pos
         /\ valid' = IF r.val THEN "True" ELSE "False"
         /\ decreased' = decreased \cup r.dec
  /\ pc' = "fileVersion"
  /\ UNCHANGED << fileContents, conv, staves, error, thisStaff, staffI, lyr,
                  objs, lastObject, dropped, started, dumpVars, call >>

\* line 348
ResolveVersion ==
  /\ pc = "fileVersion"
  /\ LET r == fileVersion(fileContents, parsePosition, TRUE)
     IN  /\ parsePosition' = r.pos
         /\ decreased' = decreased \cup r.dec
         /\ error' = r.err
         /\ conv' = IF r.err = "none" THEN [conv EXCEPT !.version = r.val] ELSE conv
         /\ pc' = IF r.err = "none" THEN "headerFields" ELSE "raised"
  /\ UNCHANGED << fileContents, staves, decodeVars, dumpVars, call >>

\* lines 352-433 and line 331
ParseHeaderFields ==
  /\ pc = "headerFields"
  /\ \E r \in { RunReads(fileContents, RunState(conv, PyNone),
                           HeaderReads(conv.version)) } :
         /\ parsePosition' = r.pos
         /\ decreased' = decreased \cup r.dec
         /\ error' = r.err
         /\ conv' = r.f
         /\ pc' = IF r.err = "none" THEN "staffLoop" ELSE "raised"
         /\ staves' = IF r.err = "none" THEN << >> ELSE staves
  /\ staffI' = 0
  /\ UNCHANGED << fileContents, thisStaff, lyr, objs, valid, dropped, started, lastObject,
                  dumpVars, call >>

\* line 336: "visible", "hidden", or the exception ord() raises
StaffVisibility(groupVisibility, i) ==
  IF groupVisibility.t = "bool" THEN "TypeError"           \* not True; ord(True)
  ELSE IF groupVisibility.v = << >> THEN "visible"         \* not b''
  ELSE IF Len(groupVisibility.v) # 1 THEN "TypeError"      \* ord of 2+ bytes
  ELSE IF BitSet(groupVisibility.v[1], i) THEN "visible" ELSE "hidden"

ParseContentReturn ==
  /\ pc = "staffLoop"
  /\ staffI >= conv.numberOfStaves
  /\ pc' = "parsed"
  /\ UNCHANGED << fileContents, parsePosition, conv, staves, error, decodeVars,
                  decreased, dumpVars, call >>

SkipHiddenStaff ==
  /\ pc = "staffLoop"
  /\ staffI < conv.numberOfStaves
  /\ StaffVisibility(conv.groupVisibility, staffI) = "hidden"
  /\ staffI' = staffI + 1
  /\ UNCHANGED << fileContents, parsePosition, conv, staves, pc, error,
                  thisStaff, lyr, objs, valid, dropped, started, lastObject, decreased, dumpVars,
                  call >>

VisibilityRaises ==
  /\ pc = "staffLoop"
  /\ staffI < conv.numberOfStaves
  /\ StaffVisibility(conv.groupVisibility, staffI) = "TypeError"
  /\ error' = "TypeError"
  /\ pc' = "raised"
  /\ UNCHANGED << fileContents, parsePosition, conv, staves, decodeVars,
                  decreased, dumpVars, call >>

\* lines 337-338 and 478: a new NWCStaff and its parseHeader
StartStaff ==
  /\ pc = "staffLoop"
  /\ staffI < conv.numberOfStaves
  /\ StaffVisibility(conv.groupVisibility, staffI) = "visible"
  /\ \E r \in { StaffParseHeader(fileContents, RunState(NWCStaffInit, PyNone),
                                   conv.version) } :
         /\ parsePosition' = r.pos
         /\ decreased' = decreased \cup r.dec
         /\ error' = r.err
         /\ thisStaff' = r.f
         /\ pc' = IF r.err = "none" THEN "parseLyrics" ELSE "raised"
  /\ lyr' = LyrInit
  /\ objs' = ObjsInit
  /\ started' = started \cup {staffI}
  /\ UNCHANGED << fileContents, conv, staves, staffI, valid, dropped, lastObject,
                  dumpVars, call >>

\* ------------------------------------------------------------------------
\* NWCStaff.parseLyrics.  lyr.slotStart (the cursor when the slot began),
\* lyr.scanEnd (the cursor when the syllable loop ended) and lyr.last (what
\* the last step did) are kept for the properties.
\* ------------------------------------------------------------------------

MaxRead == 1000

\* the model follows a staff through at most this many lyric slots
MaxSlots == 3

\* lines 572-587: the size fields of one slot
LyricSlotBegin ==
  /\ pc = "parseLyrics"
  /\ lyr.i < thisStaff.numberOfLyrics
  /\ lyr.i < MaxSlots
  /\ LET size   == readLEShort(fileContents, parsePosition, TRUE)
         lyricBlockSize == IF size.err = "none" THEN size.val ELSE 0
         unused == readLEShort(fileContents, size.pos, TRUE)
         junk   == readLEShort(fileContents, unused.pos, TRUE)
         base   == [lyr EXCEPT !.syllables = << >>,
                               !.lyricBlockSize = lyricBlockSize,
                               !.slotStart = parsePosition,
                               !.sizeRead = (size.err = "none")]
     IN  IF lyricBlockSize <= 0
         THEN /\ parsePosition' = size.pos
              /\ lyr' = [base EXCEPT !.i = lyr.i + 1, !.last = "skipped"]
              /\ UNCHANGED << pc, error >>
         ELSE IF unused.err # "none" \/ junk.err # "none"
         THEN /\ parsePosition' = IF unused.err # "none" THEN unused.pos ELSE junk.pos
              /\ lyr' = [base EXCEPT !.last = "raised"]
              /\ error' = "struct.error"
              /\ pc' = "raised"
         ELSE /\ parsePosition' = junk.pos
              /\ lyr' = [base EXCEPT !.parsePositionStart = unused.pos,
                                     !.continueIt = TRUE,
                                     !.maxRead = MaxRead,
                                     !.last = "sizes"]
              /\ pc' = "scan"
              /\ UNCHANGED error
  /\ UNCHANGED << fileContents, conv, staves, thisStaff, staffI, objs, valid, dropped, started,
                  lastObject, decreased, dumpVars, call >>

\* a loop test that leaves the count of reads out
ScanGoesOnUncapped(continueIt, maxRead) == continueIt

\* line 588: the test of the syllable loop
ScanGoesOn(continueIt, maxRead) == continueIt /\ maxRead > 0

\* lines 588-596: one pass of the syllable loop
ScanSyllable ==
  /\ pc = "scan"
  /\ ScanGoesOn(lyr.continueIt, lyr.maxRead)
  /\ LET syllable == readToNUL(fileContents, parsePosition, TRUE)
     IN  /\ parsePosition' = syllable.pos
         /\ decreased' = IF syllable.pos < parsePosition
                         THEN decreased \cup {"readToNUL"} ELSE decreased
         /\ lyr' = [lyr EXCEPT
                      !.maxRead = lyr.maxRead - 1,
                      !.continueIt = (syllable.val # << >>),
                      !.syllables = IF syllable.val = << >> THEN lyr.syllables
                                    ELSE Append(lyr.syllables, syllable.val),
                      !.last = "syllable"]
  /\ UNCHANGED << fileContents, conv, staves, pc, error, thisStaff, staffI,
                  objs, valid, dropped, started, lastObject, dumpVars, call >>

\* a seek that never moves the cursor backwards
SeekBlockEndForwardOnly(pp, parsePositionStart, lyricBlockSize) ==
  Max(pp, parsePositionStart + lyricBlockSize)

\* the cursor after the syllable loop: line 597
SeekBlockEnd(pp, parsePositionStart, lyricBlockSize) ==
  parsePositionStart + lyricBlockSize

\* lines 597-598
LyricSlotEnd ==
  /\ pc = "scan"
  /\ ~ScanGoesOn(lyr.continueIt, lyr.maxRead)
  /\ parsePosition' = SeekBlockEnd(parsePosition, lyr.parsePositionStart,
                                   lyr.lyricBlockSize)
  /\ decreased' = IF parsePosition' < parsePosition
                  THEN decreased \cup {"lyricSeek"} ELSE decreased
  /\ lyr' = [lyr EXCEPT !.lyrics = Append(lyr.lyrics, lyr.syllables),
                        !.i = lyr.i + 1,
                        !.scanEnd = parsePosition,
                        !.last = "seek"]
  /\ pc' = "parseLyrics"
  /\ UNCHANGED << fileContents, conv, staves, error, thisStaff, staffI, objs,
                  valid, dropped, started, lastObject, dumpVars, call >>

\* lines 601-606
LyricsTail ==
  /\ pc = "parseLyrics"
  /\ lyr.i >= thisStaff.numberOfLyrics
  /\ LET junk  == IF thisStaff.numberOfLyrics > 0
                  THEN readLEShort(fileContents, parsePosition, TRUE)
                  ELSE [val |-> 0, pos |-> parsePosition, err |-> "none"]
         junk2 == readLEShort(fileContents, junk.pos, TRUE)
     IN  IF junk.err # "none" \/ junk2.err # "none"
         THEN /\ parsePosition' = IF junk.err # "none" THEN junk.pos ELSE junk2.pos
              /\ error' = "struct.error"
              /\ pc' = "raised"
              /\ lyr' = [lyr EXCEPT !.last = "raised"]
              /\ UNCHANGED thisStaff
         ELSE /\ parsePosition' = junk2.pos
              /\ thisStaff' = [thisStaff EXCEPT !.lyrics = lyr.lyrics]
              /\ pc' = "parseObjects"
              /\ lyr' = [lyr EXCEPT !.last = "tail"]
              /\ UNCHANGED error
  /\ UNCHANGED << fileContents, conv, staves, staffI, objs, valid, dropped, started, lastObject,
                  decreased, dumpVars, call >>

\* ------------------------------------------------------------------------
\* NWCStaff.parseObjects and the end of the loop body of parseContent
\* ------------------------------------------------------------------------

\* lines 611-613
ParseObjectsBegin ==
  /\ pc = "parseObjects"
  /\ LET n == readLEShort(fileContents, parsePosition, TRUE)
     IN  /\ parsePosition' = n.pos
         /\ error' = n.err
         /\ pc' = IF n.err = "none" THEN "parseObject" ELSE "raised"
         /\ thisStaff' = IF n.err # "none" THEN thisStaff
                         ELSE [thisStaff EXCEPT !.numberOfObjects =
                                 IF conv.version > 150 THEN n.val - 2 ELSE n.val]
  /\ objs' = ObjsInit
  /\ UNCHANGED << fileContents, conv, staves, staffI, lyr, valid, dropped, started, lastObject,
                  decreased, dumpVars, call >>

\* lines 616-618: one object of the staff, its chord children included
ParseObjectStep ==
  /\ pc = "parseObject"
  /\ objs.i < thisStaff.numberOfObjects
  /\ objs.i < MaxObjects
  /\ \E r \in { parseObject(fileContents, RunState(NWCObjectInit, thisStaff.label),
                              conv.version) },
        tag \in { readLEShort(fileContents, parsePosition, TRUE) } :
         /\ parsePosition' = r.pos
         /\ decreased' = decreased \cup r.dec
         /\ error' = r.err
         /\ pc' = IF r.err = "none" THEN "parseObject" ELSE "raised"
         /\ objs' = IF r.err # "none" THEN objs
                    ELSE [i |-> objs.i + 1, objects |-> Append(objs.objects, r.f)]
         /\ thisStaff' = [thisStaff EXCEPT !.label = r.label]
         /\ lastObject' = [ tag  |-> tag.val, read |-> (tag.err = "none"),
                            type |-> r.f.type, err |-> r.err,
                            at   |-> parsePosition ]
  /\ UNCHANGED << fileContents, conv, staves, staffI, lyr, valid, dropped, started, dumpVars, call >>

\* line 340: bytes never equal a str
IsGunshot(instrumentName) == instrumentName = PyStr(Gunshot)

\* a staff that is decoded and not kept
AppendStaffForgotten(stavesNow, s) == stavesNow

\* line 341
AppendStaff(stavesNow, s) == Append(stavesNow, s)

\* lines 619 and 340-341
FinishStaff ==
  /\ pc = "parseObject"
  /\ objs.i >= thisStaff.numberOfObjects
  /\ LET s == [thisStaff EXCEPT !.objects = objs.objects]
     IN  /\ thisStaff' = s
         /\ staves' = IF IsGunshot(s.instrumentName) THEN staves
                      ELSE AppendStaff(staves, s)
         /\ dropped' = IF IsGunshot(s.instrumentName) THEN dropped + 1
                       ELSE dropped
  /\ staffI' = staffI + 1
  /\ pc' = "staffLoop"
  /\ UNCHANGED << fileContents, parsePosition, conv, error, lyr, objs, valid,
                  lastObject, started, decreased, dumpVars, call >>

\* ------------------------------------------------------------------------
\* Rendering: NWCConverter.dumpToNWCText, NWCStaff.dump and the dump closure
\* of each decoder.  A line is a record of the values its text is built
\* from; k is the keyword that opens it and [k |-> ""] is the empty string.
\* A renderer returns [line, prev, err]: the line, previousAlteration after
\* the call and the exception raised ("none" when it returns).
\* ------------------------------------------------------------------------

EmptyLine == [k |-> ""]

Rendered(line, prev) == [line |-> line, prev |-> prev, err |-> "none"]

\* lines 668-669
genericDumpMethod(o, prev) == Rendered(EmptyLine, prev)

clefDump(o, prev) ==
  Rendered([k |-> "Clef", clefType |-> o.clefType, octaveShift |-> o.octaveShift],
           prev)

keySigDump(o, prev) ==
  Rendered([k |-> "Key", flats |-> o.flats, sharps |-> o.sharps], prev)

\* a bar line rendered without touching the memory
barlineDumpKeepsMemory(o, prev) ==
  Rendered([k |-> "Bar", style |-> o.style], prev)

\* lines 764-771: the memory is replaced by an empty dict
barlineDump(o, prev) ==
  Rendered([k |-> "Bar", style |-> o.style], NoAlteration)

endingDump(o, prev) == Rendered([k |-> "Ending", style |-> o.style], prev)

timeSigDump(o, prev) ==
  Rendered([k |-> "TimeSig", numerator |-> o.numerator,
            denominator |-> o.denominator], prev)

tempoDump(o, prev) == Rendered([k |-> "Tempo", value |-> o.value], prev)

\* lines 956-960: the alteration the note is written with
NoteAlteration(o, prev) ==
  LET alteration == IF o.alterationStr = "" THEN prev[o.pos % 7]
                    ELSE o.alterationStr
  IN  IF alteration = "None" THEN "" ELSE alteration

\* line 966: the memory after the note
NoteMemory(o, prev) == [prev EXCEPT ![o.pos % 7] = o.alterationStr]

\* lines 952-967
noteDump(o, prev) ==
  Rendered([k |-> "Note", dur |-> o.durationStr, alt |-> NoteAlteration(o, prev),
            pos |-> o.pos, tie |-> o.tieInfo],
           NoteMemory(o, prev))

restDump(o, prev) == Rendered([k |-> "Rest", dur |-> o.durationStr], prev)

\* lines 1025-1031: the children grouped by duration string, the groups in
\* the order their duration first appears
RECURSIVE ChordNotes(_, _)
ChordNotes(kids, notes) ==
  IF kids = << >> THEN notes
  ELSE
    LET d    == Head(kids)
        txt  == [alt |-> d.alterationStr, pos |-> d.pos, tie |-> d.tieInfo]
        at   == { i \in 1 .. Len(notes) : notes[i].dur = d.durationStr }
    IN  ChordNotes(Tail(kids),
                   IF at = {}
                   THEN Append(notes, [dur |-> d.durationStr, pos |-> << txt >>])
                   ELSE [i \in 1 .. Len(notes) |->
                           IF i \in at
                           THEN [notes[i] EXCEPT !.pos = Append(notes[i].pos, txt)]
                           ELSE notes[i]])

\* lines 1023-1035: '|Dur:' + n raises for a child whose durationStr is None
chordDump(o, prev) ==
  IF \E i \in 1 .. Len(o.data2.v) : o.data2.v[i].durationStr = << >>
  THEN [line |-> EmptyLine, prev |-> prev, err |-> "TypeError"]
  ELSE Rendered([k |-> "Chord", notes |-> ChordNotes(o.data2.v, << >>)], prev)

textDump(o, prev) == Rendered([k |-> "Text", text |-> DecodeLatin1(o.text)], prev)

\* d = dm(o) of NWCStaff.dump
DumpMethod(o, prev) ==
  CASE o.dumpMethod = "clef"    -> clefDump(o, prev)
    [] o.dumpMethod = "keySig"  -> keySigDump(o, prev)
    [] o.dumpMethod = "barline" -> barlineDump(o, prev)
    [] o.dumpMethod = "ending"  -> endingDump(o, prev)
    [] o.dumpMethod = "timeSig" -> timeSigDump(o, prev)
    [] o.dumpMethod = "tempo"   -> tempoDump(o, prev)
    [] o.dumpMethod = "note"    -> noteDump(o, prev)
    [] o.dumpMethod = "rest"    -> restDump(o, prev)
    [] o.dumpMethod = "chord"   -> chordDump(o, prev)
    [] o.dumpMethod = "text"    -> textDump(o, prev)
    [] OTHER                    -> genericDumpMethod(o, prev)

\* lines 436-438: title and author are the bytes parseHeader read
DumpBegin ==
  /\ pc = "parsed"
  /\ dumpObjects' = << [k |-> "SongInfo", title |-> DecodeLatin1(conv.title),
                        author |-> DecodeLatin1(conv.author)] >>
  /\ dumpPos' = [s |-> 0, o |-> 0]
  /\ pc' = "dumpStaff"
  /\ UNCHANGED << fileContents, parsePosition, conv, staves, error, decodeVars,
                  decreased, staffDumpObjects, previousAlteration, lastDump,
                  call >>

NoName == << 78, 111, 78, 97, 109, 101 >>

\* lines 487-488: the label NWCStaff.dump works with
DumpLabel(s) ==
  IF s.label = PyNone
  THEN IF s.instrumentName # PyNone THEN s.instrumentName ELSE PyStr(NoName)
  ELSE s.label

\* lines 489-491: the exception the two header lines raise, if any
StaffHeadErr(label, instrumentName) ==
  IF ~CanConcatStr(label) THEN "TypeError"
  ELSE IF ~CanConcatStr(instrumentName) THEN "TypeError"
  ELSE IF \A i \in 1 .. Len(MidiInstruments) : MidiInstruments[i] # instrumentName.v
       THEN "ValueError"
  ELSE "none"

\* list.index
PatchOf(instrumentName) ==
  CHOOSE i \in 0 .. Len(MidiInstruments) - 1 :
    /\ MidiInstruments[i + 1] = instrumentName.v
    /\ \A j \in 0 .. i - 1 : MidiInstruments[j + 1] # instrumentName.v

\* a memory that goes on from one staff to the next
KeepAlteration(prev) == prev

\* line 440: self.previousAlteration = {}
ResetAlteration(prev) == NoAlteration

\* lines 440-441 and 486-493
DumpStaffHead ==
  /\ pc = "dumpStaff"
  /\ dumpPos.s < Len(staves)
  /\ LET s     == staves[dumpPos.s + 1]
         label == DumpLabel(s)
         e     == StaffHeadErr(label, s.instrumentName)
     IN  /\ previousAlteration' = ResetAlteration(previousAlteration)
         /\ staves' = [staves EXCEPT ![dumpPos.s + 1].label = label]
         /\ error' = e
         /\ pc' = IF e = "none" THEN "dumpObject" ELSE "raised"
         /\ staffDumpObjects' =
              IF e # "none" THEN << >>
              ELSE << [k |-> "AddStaff", name |-> label],
                      [k |-> "StaffInstrument", name |-> s.instrumentName,
                       patch |-> PatchOf(s.instrumentName),
                       trans |-> s.transposition] >>
  /\ dumpPos' = [dumpPos EXCEPT !.o = 0]
  /\ UNCHANGED << fileContents, parsePosition, conv, decodeVars, decreased,
                  dumpObjects, lastDump, call >>

\* every object gives a line, the empty ones too
AppendLineAlways(lines, d) == Append(lines, d)

\* lines 497-498
AppendLine(lines, d) == IF d # EmptyLine THEN Append(lines, d) ELSE lines

\* lines 494-498: one object of the staff
DumpObjectStep ==
  /\ pc = "dumpObject"
  /\ dumpPos.o < Len(staves[dumpPos.s + 1].objects)
  /\ \E d \in { DumpMethod(staves[dumpPos.s + 1].objects[dumpPos.o + 1],
                           previousAlteration) } :
       /\ previousAlteration' = d.prev
       /\ error' = d.err
       /\ pc' = IF d.err = "none" THEN "dumpObject" ELSE "raised"
       /\ staffDumpObjects' = IF d.err = "none"
                              THEN AppendLine(staffDumpObjects, d.line)
                              ELSE staffDumpObjects
       /\ lastDump' = [ staff |-> dumpPos.s, obj |-> dumpPos.o, line |-> d.line,
                        before |-> previousAlteration ]
  /\ dumpPos' = [dumpPos EXCEPT !.o = dumpPos.o + 1]
  /\ UNCHANGED << fileContents, parsePosition, conv, staves, decodeVars,
                  decreased, dumpObjects, call >>

\* lines 500 and 442-443
DumpStaffEnd ==
  /\ pc = "dumpObject"
  /\ dumpPos.o >= Len(staves[dumpPos.s + 1].objects)
  /\ dumpObjects' = dumpObjects \o staffDumpObjects
  /\ dumpPos' = [dumpPos EXCEPT !.s = dumpPos.s + 1]
  /\ pc' = "dumpStaff"
  /\ UNCHANGED << fileContents, parsePosition, conv, staves, error, decodeVars,
                  decreased, staffDumpObjects, previousAlteration, lastDump,
                  call >>

\* line 446
DumpReturn ==
  /\ pc = "dumpStaff"
  /\ dumpPos.s >= Len(staves)
  /\ pc' = "dumped"
  /\ UNCHANGED << fileContents, parsePosition, conv, staves, error, decodeVars,
                  decreased, dumpVars, call >>

\* ------------------------------------------------------------------------
\* Input buffers: the byte layout the decoder above reads, written out for
\* a document of staves of objects.  An object is described by a token
\* [k, alt, pos, kids].
\* ------------------------------------------------------------------------

Zeros(n) == [i \in 1 .. n |-> 0]

EncShort(n) ==
  LET u == IF n < 0 THEN n + 65536 ELSE n
  IN  << u % 256, u \div 256 >>

EncSByte(n) == IF n < 0 THEN n + 256 ELSE n

RECURSIVE Flatten(_)
Flatten(ss) == IF ss = << >> THEN << >> ELSE Head(ss) \o Flatten(Tail(ss))

Tok(k) == [k |-> k, alt |-> 5, pos |-> 0, kids |-> 0]

NoteTok(alt, pos) == [k |-> "note", alt |-> alt, pos |-> pos, kids |-> 0]

ChordTok(kids) == [k |-> "chord", alt |-> 5, pos |-> 0, kids |-> kids]

\* an object of any type tag (kept in pos), followed by zero bytes
RawTok(tag) == [k |-> "raw", alt |-> 5, pos |-> tag, kids |-> 0]

\* an object of any type tag (kept in pos) with the bytes of its record
\* (kept in alt)
BytesTok(tag, bytes) == [k |-> "bytes", alt |-> bytes, pos |-> tag, kids |-> 0]

TagOf(k) ==
  CASE k = "clef" -> 0 [] k = "barline" -> 2 [] k = "instrument" -> 4
    [] k = "note" -> 8 [] k = "rest" -> 9 [] k = "chord" -> 10
    [] k = "text" -> 17 [] k = "tag19" -> 19 [] k = "tagNeg" -> -1
    [] k = "pedal" -> 11

EncObject(tok, version) ==
     EncShort(IF tok.k \in {"raw", "bytes"} THEN tok.pos ELSE TagOf(tok.k))
  \o (IF version >= 170 /\ tok.k \notin {"tag19", "tagNeg"}
      THEN << 0 >> ELSE << >>)
  \o (CASE tok.k = "clef"       -> Zeros(4)
        [] tok.k = "raw"        -> Zeros(40)
        [] tok.k = "bytes"      -> tok.alt
        [] tok.k = "barline"    -> Zeros(2)
        [] tok.k = "instrument" -> Zeros(18)
        [] tok.k = "pedal"      -> Zeros(3)
        [] tok.k = "note"       -> << 2, 0, 0, 0, 0, 0, EncSByte(-tok.pos), tok.alt >>
                                   \o (IF version <= 170 THEN Zeros(2) ELSE << >>)
        [] tok.k = "rest"       -> << 2 >> \o Zeros(7)
        [] tok.k = "chord"      -> IF version <= 170 THEN Zeros(12)
                                   ELSE IF version = 175
                                   THEN Zeros(8) \o << tok.kids, 0 >>
                                   ELSE Zeros(8)
        [] tok.k = "text"       -> << 0, 0, 0, 84, 0 >>
        [] OTHER                -> << >>)

\* one lyric slot: the declared size, the inner size, a dropped short and
\* the syllable bytes
LyricSlot(size, syllableBytes) ==
  EncShort(size) \o EncShort(0) \o EncShort(0) \o syllableBytes

\* the syllable "A", the empty syllable and padding up to the size declared
LyricBlock == LyricSlot(6, << 65, 0, 0, 0 >>)

PlainSlots(n) == [i \in 1 .. n |-> LyricBlock]

RECURSIVE SumKids(_)
SumKids(toks) ==
  IF toks = << >> THEN 0 ELSE Head(toks).kids + SumKids(Tail(toks))

EncStaff(version, patch, slots, toks) ==
     << 0 >>
  \o (IF version >= 200 THEN << 0, 0 >> ELSE << >>)
  \o << 0 >>
  \o (IF version >= 200
      THEN Zeros(27) \o << 5 >> \o Zeros(11) \o EncShort(Len(slots))
      ELSE IF version = 175
      THEN Zeros(11) \o << patch >> \o Zeros(19) \o EncShort(Len(slots))
      ELSE << >>)
  \o (IF version >= 175 /\ Len(slots) > 0
      THEN Zeros(4) \o Flatten(slots) \o Zeros(2)
      ELSE << >>)
  \o Zeros(2)
  \o EncShort(Len(toks) - SumKids(toks) + (IF version > 150 THEN 2 ELSE 0))
  \o Flatten([i \in 1 .. Len(toks) |-> EncObject(toks[i], version)])

CodeOfVersion(version) ==
  CASE version = 120 -> << 20, 1 >> [] version = 130 -> << 30, 1 >>
    [] version = 150 -> << 50, 1 >> [] version = 155 -> << 55, 1 >>
    [] version = 170 -> << 70, 1 >> [] version = 175 -> << 75, 1 >>
    [] version = 200 -> << 0, 2 >>  [] version = 201 -> << 1, 2 >>

EncHeader(sig1, sig2, code, version, groupVisibility, numberOfStaves) ==
     (IF sig1 THEN Header1 ELSE << 88 >> \o Tail(Header1)) \o Zeros(3)
  \o (IF sig2 THEN Header2 ELSE << 88 >> \o Tail(Header2)) \o << 0 >>
  \o code \o Zeros(4)
  \o Zeros(2) \o Zeros(10)
  \o << 84, 0 >> \o << 65, 0 >>                          \* title "T", author "A"
  \o (IF version >= 200 THEN << 0 >> ELSE << >>)
  \o Zeros(8) \o EncShort(1)
  \o (IF version >= 130 THEN << 0 >> ELSE << >>)
  \o Zeros(2)
  \o (IF version >= 130 THEN groupVisibility \o << 0, 0 >> ELSE << >>)
  \o (IF version >= 200 THEN << 0 >> ELSE << >>)
  \o EncShort(258) \o << 1, 1 >>
  \o Flatten([i \in 1 .. fontCount(version) |-> << 0, 0, 0, 0, 0 >>])
  \o << 0, 0 >> \o EncShort(1)
  \o (IF version >= 200 THEN << 0 >> ELSE << >>)
  \o << numberOfStaves, 0 >>

EncFile(sig1, sig2, code, version, groupVisibility, staffBytes) ==
     EncHeader(sig1, sig2, code, version, groupVisibility, Len(staffBytes))
  \o Flatten(staffBytes)

Prefixes(s, lens) == { SubSeq(s, 1, n) : n \in { m \in lens : m <= Len(s) } }

\* ------------------------------------------------------------------------
\* The decode of a whole buffer: parseString up to the call of toStream
\* ------------------------------------------------------------------------

RECURSIVE SeqsUpTo(_, _)
SeqsUpTo(S, n) ==
  IF n = 0 THEN { << >> }
  ELSE LET shorter == SeqsUpTo(S, n - 1)
       IN  shorter \cup { Append(s, x) : s \in { t \in shorter : Len(t) = n - 1 }, x \in S }

DecodeTokens ==
  { Tok("clef"), Tok("barline"), Tok("pedal"), NoteTok(0, 0), Tok("text"),
    Tok("tag19"), Tok("tagNeg") }

LayoutVersions == { 120, 130, 150, 155, 170, 175, 200, 201 }

UnknownCodes == { << 0, 0 >>, << 2, 2 >>, << 75, 2 >>, << 20, 129 >>, << 255, 255 >> }

PlainStaff(version) == EncStaff(version, 1, << >>, << Tok("clef") >>)

\* every version code, with both signatures right or wrong
VersionFiles ==
  { EncFile(s1, s2, CodeOfVersion(v), v, << >>, << PlainStaff(v) >>) :
      s1 \in BOOLEAN, s2 \in BOOLEAN, v \in LayoutVersions }
  \cup
  { EncFile(TRUE, TRUE, c, 201, << >>, << PlainStaff(201) >>) : c \in UnknownCodes }

\* staves of objects: plain staves, then one staff of any objects
ObjectFiles ==
  { EncFile(TRUE, TRUE, CodeOfVersion(v), v, << >>,
            [i \in 1 .. n |-> PlainStaff(v)]
            \o << EncStaff(v, 1, PlainSlots(nl), toks) >>) :
      v \in { 155, 175, 200 }, n \in { 0, MaxStaves - 1 }, nl \in 0 .. 1,
      toks \in SeqsUpTo(DecodeTokens, MaxObjects - 1) }

\* one object of every type tag around the table of decoders, and of the
\* extreme tags, in three layouts
TypeTags == (-2 .. NumObjMethods + 1) \cup { -32768, 32767 }

TagFiles ==
  { EncFile(TRUE, TRUE, CodeOfVersion(v), v, << >>,
            << EncStaff(v, 1, << >>, << RawTok(t) >>) >>) :
      v \in { 155, 175, 200 }, t \in TypeTags }

\* a chord of two notes (version 175), a hidden staff, a percussion staff
OtherFiles ==
  { EncFile(TRUE, TRUE, CodeOfVersion(175), 175, gv,
            << EncStaff(175, p, << >>, << ChordTok(2), NoteTok(0, 1), NoteTok(5, 1) >>),
               PlainStaff(175) >>) :
      gv \in { << >>, << 1 >>, << 2 >>, << 3 >>, << 3, 3 >> }, p \in { 0, 1, 4 } }

\* a buffer cut short anywhere
CutFiles ==
  UNION { Prefixes(EncFile(TRUE, TRUE, CodeOfVersion(v), v, << >>,
                           << EncStaff(v, 1, PlainSlots(1), << NoteTok(0, 0) >>) >>),
                   0 .. 400) : v \in { 175, 200 } }

\* notes with and without an accidental on one pitch class (two octaves)
\* and on another, bar lines, and an object that renders to nothing
DumpTokens ==
  { NoteTok(0, 0), NoteTok(5, 0), NoteTok(5, -7), NoteTok(1, 1),
    Tok("barline"), Tok("pedal") }

\* version 1.75 documents of one staff of notes and bar lines; staves whose
\* patch byte selects no instrument, or the last one
DumpFiles ==
  { EncFile(TRUE, TRUE, CodeOfVersion(175), 175, << >>,
            << EncStaff(175, 1, << >>, toks) >>) :
      toks \in SeqsUpTo(DumpTokens, MaxObjects) }
  \cup
  { EncFile(TRUE, TRUE, CodeOfVersion(175), 175, << >>,
            << EncStaff(175, 2, << >>, toks),
               EncStaff(175, p, << >>, << NoteTok(5, 0), Tok("clef") >>) >>) :
      p \in { 0, 3, 4 }, toks \in { << NoteTok(0, 0) >>, << ChordTok(1), Tok("clef") >> } }

\* as many one-letter syllables as the syllable loop reads at most, and one more
ManySyllables == [i \in 1 .. 2 * (MaxRead + 1) |-> IF i % 2 = 1 THEN 65 ELSE 0]

\* the syllable bytes of a slot: ended by an empty syllable within the size
\* declared, ended beyond it, or not ended before the loop gives up
LyricSlots ==
  { LyricSlot(6, << 65, 0, 0, 0 >>), LyricSlot(2, << 65, 66, 0, 67, 0, 0 >>),
    LyricSlot(9, << 65, 0, 66, 0, 0, 0, 0 >>),
    EncShort(0), EncShort(-1) }

CapSlots ==
  { LyricSlot(4, ManySyllables), LyricSlot(2 * MaxRead + 4, ManySyllables) }

\* staves with lyric slots, in the two layouts that have them
LyricFiles ==
  { EncFile(TRUE, TRUE, CodeOfVersion(v), v, << >>,
            << EncStaff(v, 1, slots, << Tok("clef") >>) >>) :
      v \in { 175, 200 },
      slots \in { << a >> : a \in LyricSlots } \cup
                { << a, b >> : a \in LyricSlots, b \in LyricSlots } }
  \cup
  { EncFile(TRUE, TRUE, CodeOfVersion(175), 175, << >>,
            << EncStaff(175, 1, << a >>, << Tok("clef") >>) >>) : a \in CapSlots }

\* dot-attribute bytes: every setting of bits 0x01 and 0x04, alone and
\* among other bits
DotBytes == { 0, 1, 4, 5, 2, 250, 251, 254, 255 }

\* a Note (tag 8) or a Rest (tag 9) of a duration, a dot-attribute byte and
\* a grace bit; both keep the dot-attribute byte as byte 4 of the record
DotTok(tag, duration, dot, grace) ==
  BytesTok(tag, << duration, 0, 0, 0, dot, IF tag = 8 THEN grace ELSE 0, 0,
                   IF tag = 8 THEN 5 ELSE 0 >>)

\* one staff holding one such Note or Rest
DotFiles ==
  { EncFile(TRUE, TRUE, CodeOfVersion(v), v, << >>,
            << EncStaff(v, 1, << >>, << DotTok(tag, duration, dot, grace) >>) >>) :
      v \in { 175, 200 }, tag \in { 8, 9 }, duration \in { 0, 6 },
      dot \in DotBytes, grace \in { 0, 32 } }

\* records with bytes that are not zero: an Instrument with a name, a Note
\* with and without the stem-length flag, a MidiInstruction, a KeySignature
LengthTokens ==
  { BytesTok(4, Zeros(8) \o << 80, 105, 0 >> \o << 1, 2, 3, 4, 5, 6, 7, 8, 9 >>),
    BytesTok(8, << 2, 1, 1, 1, 0, 0, 3, 5 >>),
    BytesTok(8, << 2, 1, 1, 1, 0, 0, 3, 69, 9 >>),
    BytesTok(13, [i \in 1 .. 33 |-> 7]),
    BytesTok(1, << 1, 9, 0, 9, 9, 9, 9, 9, 9, 9 >>) }

\* versions 2.0 and 2.01: one such record and a Clef after it, and one
\* zero-filled record of every type
LengthFiles ==
  { EncFile(TRUE, TRUE, CodeOfVersion(v), v, << >>,
            << EncStaff(v, 1, << >>, << t, Tok("clef") >>) >>) :
      v \in { 200, 201 }, t \in LengthTokens }
  \cup
  { EncFile(TRUE, TRUE, CodeOfVersion(201), 201, << >>,
            << EncStaff(201, 1, << >>, << RawTok(t) >>) >>) :
      t \in 0 .. NumObjMethods - 1 }

Inputs ==
  VersionFiles \cup ObjectFiles \cup OtherFiles \cup CutFiles \cup DumpFiles
  \cup LyricFiles \cup TagFiles \cup DotFiles \cup LengthFiles

DumpIdle ==
  /\ dumpObjects = << >>
  /\ staffDumpObjects = << >>
  /\ previousAlteration = NoAlteration
  /\ dumpPos = [s |-> 0, o |-> 0]
  /\ lastDump = NoDump

Init ==
  /\ fileContents \in Inputs
  /\ parsePosition = 0
  /\ conv = NWCConverterInit
  /\ staves = << >>
  /\ pc = "parseContent"
  /\ error = "none"
  /\ thisStaff = NWCStaffInit
  /\ staffI = 0
  /\ lyr = LyrInit
  /\ objs = ObjsInit
  /\ valid = "unset"
  /\ decreased = {}
  /\ lastObject = NoObject
  /\ dropped = 0
  /\ started = {}
  /\ call = NoCall
  /\ DumpIdle

Next ==
  \/ ParseContentStart
  \/ CheckValid
  \/ ResolveVersion
  \/ ParseHeaderFields
  \/ ParseContentReturn
  \/ SkipHiddenStaff
  \/ VisibilityRaises
  \/ StartStaff
  \/ LyricSlotBegin
  \/ ScanSyllable
  \/ LyricSlotEnd
  \/ LyricsTail
  \/ ParseObjectsBegin
  \/ ParseObjectStep
  \/ FinishStaff
  \/ DumpBegin
  \/ DumpStaffHead
  \/ DumpObjectStep
  \/ DumpStaffEnd
  \/ DumpReturn

Spec == Init /\ [][Next]_vars

\* ------------------------------------------------------------------------
\* The primitive reads called directly on a converter whose buffer and
\* cursor were set by hand, as the doctests of readLEShort do.  call keeps
\* the last call: its name, flag, the cursor before it, the byte count asked
\* for, and the value returned or the exception raised.
\* ------------------------------------------------------------------------

\* the buffers have at most this many bytes
MaxPrimLen == 3

\* a call is made while the cursor is at most this far
MaxPrimPos == 4

PrimBytes == { 0, 1, 200 }

\* 16-bit values, the least and the greatest among them
ShortValues == { 258, 259, 0, -1, 255, -32768, 32767 }

\* buffers of two little-endian shorts
ShortPairs == { EncShort(a) \o EncShort(b) : a, b \in ShortValues }

\* buffers that hold a version code at offset 45, known or not
VersionBuffers ==
  { Zeros(VersionOffset) \o c :
      c \in { CodeOfVersion(175), CodeOfVersion(200), << 0, 0 >>, << 255, 255 >> } }

PrimBuffers ==
  SeqsUpTo(PrimBytes, MaxPrimLen) \cup ShortPairs \cup VersionBuffers

Called(op, upd, n, r) ==
  [ op |-> op, upd |-> upd, before |-> parsePosition, n |-> n, val |-> r.val,
    err |-> r.err, prev |-> [ x \in DOMAIN NoPrev |-> call[x] ] ]

PrimFrame ==
  UNCHANGED << fileContents, conv, staves, pc, error, decodeVars, decreased,
               dumpVars >>

CallReadLEShort ==
  /\ pc = "prim" /\ parsePosition <= MaxPrimPos
  /\ \E upd \in BOOLEAN :
       \E r \in { readLEShort(fileContents, parsePosition, upd) } :
         /\ parsePosition' = r.pos
         /\ call' = Called("readLEShort", upd, 2, r)
  /\ PrimFrame

CallByteToInt ==
  /\ pc = "prim" /\ parsePosition <= MaxPrimPos
  /\ \E upd \in BOOLEAN :
       \E r \in { byteToInt(fileContents, parsePosition, upd) } :
         /\ parsePosition' = r.pos
         /\ call' = Called("byteToInt", upd, 1, r)
  /\ PrimFrame

CallByteToSignedInt ==
  /\ pc = "prim" /\ parsePosition <= MaxPrimPos
  /\ \E upd \in BOOLEAN :
       \E r \in { byteToSignedInt(fileContents, parsePosition, upd) } :
         /\ parsePosition' = r.pos
         /\ call' = Called("byteToSignedInt", upd, 1, r)
  /\ PrimFrame

CallReadBytes ==
  /\ pc = "prim" /\ parsePosition <= MaxPrimPos
  /\ \E upd \in BOOLEAN, n \in 0 .. MaxPrimLen :
       \E r \in { readBytes(fileContents, parsePosition, n, upd) } :
         /\ parsePosition' = r.pos
         /\ call' = Called("readBytes", upd, n, r)
  /\ PrimFrame

CallReadToNUL ==
  /\ pc = "prim" /\ parsePosition <= MaxPrimPos
  /\ \E upd \in BOOLEAN :
       \E r \in { readToNUL(fileContents, parsePosition, upd) } :
         /\ parsePosition' = r.pos
         /\ call' = Called("readToNUL", upd, 0, r)
  /\ PrimFrame

CallSkipBytes ==
  /\ pc = "prim" /\ parsePosition <= MaxPrimPos
  /\ \E n \in 1 .. 2 :
       /\ parsePosition' = skipBytes(parsePosition, n)
       /\ call' = Called("skipBytes", TRUE, n, [val |-> 0, err |-> "none"])
  /\ PrimFrame

\* fileVersion called directly: it assigns self.version when it returns
CallFileVersion ==
  /\ pc = "prim" /\ parsePosition <= MaxPrimPos
  /\ \E upd \in BOOLEAN :
       \E r \in { fileVersion(fileContents, parsePosition, upd) } :
         /\ parsePosition' = r.pos
         /\ call' = Called("fileVersion", upd, 2, r)
         /\ conv' = IF r.err = "none" THEN [conv EXCEPT !.version = r.val] ELSE conv
  /\ UNCHANGED << fileContents, staves, pc, error, decodeVars, decreased, dumpVars >>

InitPrim ==
  /\ fileContents \in PrimBuffers
  /\ parsePosition = 0
  /\ conv = NWCConverterInit
  /\ staves = << >>
  /\ pc = "prim"
  /\ error = "none"
  /\ thisStaff = NWCStaffInit
  /\ staffI = 0
  /\ lyr = LyrInit
  /\ objs = ObjsInit
  /\ valid = "unset"
  /\ decreased = {}
  /\ lastObject = NoObject
  /\ dropped = 0
  /\ started = {}
  /\ call = NoCall
  /\ DumpIdle

NextPrim ==
  \/ CallReadLEShort
  \/ CallByteToInt
  \/ CallByteToSignedInt
  \/ CallReadBytes
  \/ CallReadToNUL
  \/ CallSkipBytes
  \/ CallFileVersion

SpecPrim == InitPrim /\ [][NextPrim]_vars

\* ------------------------------------------------------------------------
\* Properties
\* ------------------------------------------------------------------------

\* the object lastDump is about, and the objects of its staff
DumpedObjects == staves[lastDump.staff + 1].objects

DumpedObject == DumpedObjects[lastDump.obj + 1]

ExplicitAt(o, P) ==
  o.type = "Note" /\ o.pos % 7 = P /\ o.alterationStr # ""

\* the alteration of the most recent explicitly altered Note at pitch class
\* P among objects[1 .. j], looking back no further than the last Barline
RECURSIVE RecentAlteration(_, _, _)
RecentAlteration(objects, P, j) ==
  IF j = 0 THEN ""
  ELSE IF objects[j].type = "Barline" THEN ""
  ELSE IF ExplicitAt(objects[j], P) THEN objects[j].alterationStr
  ELSE RecentAlteration(objects, P, j - 1)

NotesAndBarlines(objects) ==
  \A i \in 1 .. Len(objects) : objects[i].type \in { "Note", "Barline" }

\* C1: on a staff of Notes and Barlines, a Note without an alteration of its
\* own is rendered with the alteration of the most recent explicitly altered
\* Note of its pitch class since the last Barline (with none if there is
\* none), however many unmarked notes of the pitch class come in between.
C1_AlterationPersists ==
  (lastDump.obj >= 0 /\ lastDump.line.k = "Note") =>
    ( (NotesAndBarlines(DumpedObjects) /\ DumpedObject.alterationStr = "") =>
        lastDump.line.alt =
          RecentAlteration(DumpedObjects, DumpedObject.pos % 7, lastDump.obj) )

\* a Barline comes before the object lastDump is about, and no explicitly
\* altered Note of pitch class P comes after it
BarlineSince(P) ==
  \E j \in 1 .. lastDump.obj :
    /\ DumpedObjects[j].type = "Barline"
    /\ \A m \in j + 1 .. lastDump.obj : ~ExplicitAt(DumpedObjects[m], P)

\* C2: rendering a Barline leaves the alteration memory empty, and the Notes
\* without an alteration of their own rendered after a Barline, with no
\* explicitly altered Note of their pitch class in between, are rendered
\* with no alteration, whatever was rendered before the Barline.
C2_BarlineClearsMemory ==
  /\ ( lastDump.obj >= 0 /\ lastDump.line.k = "Bar" /\ pc = "dumpObject"
       /\ dumpPos = [s |-> lastDump.staff, o |-> lastDump.obj + 1] )
       => previousAlteration = NoAlteration
  /\ ( lastDump.obj >= 0 /\ lastDump.line.k = "Note"
       /\ DumpedObject.alterationStr = ""
       /\ BarlineSince(DumpedObject.pos % 7) )
       => lastDump.line.alt = ""

\* C2 witness: an unmarked Note rendered after a Barline, an explicitly
\* altered Note of the same pitch class having been rendered before it
C2_Witness ==
  /\ lastDump.obj >= 2 /\ lastDump.line.k = "Note"
  /\ DumpedObject.alterationStr = ""
  /\ BarlineSince(DumpedObject.pos % 7)
  /\ DumpedObjects[lastDump.obj].type = "Barline"
  /\ ExplicitAt(DumpedObjects[lastDump.obj - 1], DumpedObject.pos % 7)
  /\ lastDump.line.alt = ""

\* the 16-bit value at position p of the buffer, read apart from the decoder
ShortAt(p) ==
  LET u == fileContents[p + 1] + 256 * fileContents[p + 2]
  IN  IF u >= 32768 THEN u - 65536 ELSE u

\* C3: after a lyric slot whose declared size S is positive, the cursor is
\* blockStart + S, blockStart being the cursor right after the inner size
\* field (four bytes after the slot began), however the syllable scan ended.
C3_LyricCursorAtBlockEnd ==
  lyr.last = "seek" =>
    /\ ShortAt(lyr.slotStart) > 0
    /\ parsePosition = (lyr.slotStart + 4) + ShortAt(lyr.slotStart)

\* C3 witness: a slot whose scan gave up after 1000 reads, beyond the end of
\* the declared block
C3_Witness ==
  /\ lyr.last = "seek"
  /\ lyr.maxRead = 0
  /\ Len(lyr.syllables) = MaxRead
  /\ lyr.scanEnd > parsePosition

\* C4: during one decode the cursor never decreases: no primitive read, skip
\* or seek leaves it below the value it had before.
C4_CursorNeverDecreases == decreased = {}

DecoderTypes ==
  << "Clef", "KeySig", "Barline", "Ending", "Instrument", "TimeSignature",
     "Tempo", "Dynamic", "Note", "Rest", "NoteChordMember", "Pedal", "FlowDir",
     "MPC", "TempoVariation", "DynamicVariation", "Performance", "Text",
     "RestChordMember" >>

TagInRange == lastObject.tag \in 0 .. 18

\* C5 as stated: every type tag outside 0..18 fails with the module's
\* exception, every tag inside is handed to the decoder at its index.
C5_TagDispatch ==
  lastObject.read =>
    IF TagInRange
    THEN lastObject.type = DecoderTypes[lastObject.tag + 1]
    ELSE lastObject.err = NoteworthyBinaryTranslateException

\* the visibility byte that follows the tag from version 1.70 on is there
VisibilityByteThere ==
  conv.version < 170 \/ lastObject.at + 2 < Len(fileContents)

\* C5 amended: every type tag outside 0..18 fails with the module's exception
\* and no decoder runs; a tag inside is handed to the decoder at its index
\* once the visibility byte after the tag is read, and when the buffer ends
\* right after the tag the read of that byte raises and no decoder runs.
C5_TagDispatchAfterVisibility ==
  lastObject.read =>
    IF ~TagInRange
    THEN /\ lastObject.err = NoteworthyBinaryTranslateException
         /\ lastObject.type = "None"
    ELSE IF VisibilityByteThere
    THEN lastObject.type = DecoderTypes[lastObject.tag + 1]
    ELSE lastObject.err = "TypeError" /\ lastObject.type = "None"

\* C5 witness: the last decoder of the table has run
C5_Witness ==
  /\ lastObject.read /\ lastObject.tag = 18
  /\ lastObject.type = "RestChordMember" /\ lastObject.err = "none"

\* the buffer starts with the first signature and, two NUL-ended fields
\* later, holds the second
SignaturesMatch ==
  LET fc == fileContents
      n1 == Len(Header1)
      j1 == NulPosition(fc, n1 + 1)
      j2 == IF j1 = -1 THEN -1 ELSE NulPosition(fc, j1 + 1)
  IN  /\ Len(fc) > n1 /\ SubSeq(fc, 1, n1 + 1) = Header1 \o << 0 >>
      /\ j2 # -1
      /\ Len(fc) > j2 + 1 + Len(Header2)
      /\ SubSeq(fc, j2 + 2, j2 + 2 + Len(Header2)) = Header2 \o << 0 >>

\* C6: on a buffer whose signatures do not match, the decode is aborted once
\* the signatures are looked at, and no header field, staff or object is read.
C6_BadSignatureAborts ==
  (~SignaturesMatch /\ pc \notin { "parseContent", "parseHeader", "fileVersion" })
    => /\ pc = "raised"
       /\ conv.title = PyNone
       /\ staves = << >>
       /\ thisStaff = NWCStaffInit

PastEnd ==
  CASE call.op = "readLEShort" -> call.before + 2 > Len(fileContents)
    [] call.op \in { "byteToInt", "byteToSignedInt" } ->
         call.before + 1 > Len(fileContents)
    [] call.op = "readBytes" -> call.before + call.n > Len(fileContents)
    [] call.op = "readToNUL" ->
         \A i \in call.before + 1 .. Len(fileContents) : fileContents[i] # 0
    [] OTHER -> FALSE

\* the bytes left from the cursor on
Rest(p) ==
  IF p >= Len(fileContents) THEN << >>
  ELSE SubSeq(fileContents, p + 1, Len(fileContents))

\* C7 as stated: a primitive read that reaches past the end of the buffer
\* returns (a truncated or empty result) and does not raise.
C7_ReadsPastEndReturn == PastEnd => call.err = "none"

\* C7 amended: past the end of the buffer readBytes and readToNUL return the
\* bytes that are left (none, possibly) and do not raise, readLEShort raises
\* struct.error, and byteToInt and byteToSignedInt raise TypeError.
C7_ReadsPastEndByKind ==
  PastEnd =>
    CASE call.op \in { "readBytes", "readToNUL" } ->
           call.err = "none" /\ call.val = Rest(call.before)
      [] call.op = "readLEShort" -> call.err = "struct.error"
      [] OTHER -> call.err = "TypeError"

\* C7 witness: a signed byte asked for when the cursor is at the end
C7_Witness ==
  /\ call.op = "byteToSignedInt" /\ PastEnd
  /\ call.before = Len(fileContents) /\ Len(fileContents) > 0
  /\ call.err = "TypeError"

UnsupportedTagRaised ==
  pc = "raised" /\ error = NoteworthyBinaryTranslateException

\* C8 as stated: when an unsupported type tag ends the decode in staff k,
\* the staff collection holds none of the staves decoded before.
C8_NoStavesAfterError == UnsupportedTagRaised => staves = << >>

\* the staves before staff number k that the group-visibility mask hides
Hidden(k) ==
  { i \in 0 .. k - 1 : StaffVisibility(conv.groupVisibility, i) = "hidden" }

\* C8 amended: when an unsupported type tag ends the decode in staff k, the
\* decode raises and nothing is rendered, and the staff collection still
\* holds the staves appended before: those of 0..k-1 that were not hidden
\* and not dropped for their instrument name, each with all its objects.
C8_StavesKeptAfterError ==
  UnsupportedTagRaised =>
    /\ Len(staves) = staffI - Cardinality(Hidden(staffI)) - dropped
    /\ \A i \in 1 .. Len(staves) :
         Len(staves[i].objects) = staves[i].numberOfObjects
    /\ dumpObjects = << >>

\* C8 witness: the error comes in the second staff, the first one is kept
C8_Witness ==
  UnsupportedTagRaised /\ staffI = 1 /\ Len(staves) = 1 /\ dropped = 0

\* the version a code stands for
VersionTable(code) ==
  CASE code = 276 -> 120 [] code = 286 -> 130 [] code = 306 -> 150
    [] code = 311 -> 155 [] code = 326 -> 170 [] code = 331 -> 175
    [] code = 512 -> 200 [] code = 513 -> 201 [] OTHER -> 201

\* the unsigned 16-bit code at byte offset 45
CodeAt45 == fileContents[46] + 256 * fileContents[47]

\* C9: fileVersion turns the 16-bit code at offset 45 into the version of
\* the table, and every other code into 201, and does not raise.
C9_VersionTable ==
  [][ (pc = "fileVersion" /\ Len(fileContents) >= 47) =>
        (pc' = "headerFields" /\ conv'.version = VersionTable(CodeAt45)) ]_vars

\* C9 witness: a code that is not in the table has been resolved
C9_Witness ==
  /\ pc = "headerFields" /\ Len(fileContents) >= 47
  /\ CodeAt45 \notin { 276, 286, 306, 311, 326, 331, 512, 513 }
  /\ conv.version = 201

RECURSIVE SumObjects(_)
SumObjects(ss) ==
  IF ss = << >> THEN 0 ELSE 2 + Len(Head(ss).objects) + SumObjects(Tail(ss))

\* C10 as stated: the lines returned are 1 + the sum over the staves of
\* (2 + the number of objects of the staff).
C10_LinePerObject == pc = "dumped" => Len(dumpObjects) = 1 + SumObjects(staves)

\* the keyword of the line an object renders to, "" for the objects left
\* with the renderer that returns the empty string
Keyword(o) ==
  CASE o.dumpMethod = "clef" -> "Clef" [] o.dumpMethod = "keySig" -> "Key"
    [] o.dumpMethod = "barline" -> "Bar" [] o.dumpMethod = "ending" -> "Ending"
    [] o.dumpMethod = "timeSig" -> "TimeSig" [] o.dumpMethod = "tempo" -> "Tempo"
    [] o.dumpMethod = "note" -> "Note" [] o.dumpMethod = "rest" -> "Rest"
    [] o.dumpMethod = "chord" -> "Chord" [] o.dumpMethod = "text" -> "Text"
    [] OTHER -> ""

RECURSIVE ObjectKeywords(_)
ObjectKeywords(os) ==
  IF os = << >> THEN << >>
  ELSE (IF Keyword(Head(os)) = "" THEN << >> ELSE << Keyword(Head(os)) >>)
       \o ObjectKeywords(Tail(os))

RECURSIVE StaffKeywords(_)
StaffKeywords(ss) ==
  IF ss = << >> THEN << >>
  ELSE << "AddStaff", "StaffInstrument" >> \o ObjectKeywords(Head(ss).objects)
       \o StaffKeywords(Tail(ss))

\* C10 amended: when dumpToNWCText returns, the lines are, in this order, one
\* SongInfo line, then for each staff one AddStaff line, one StaffInstrument
\* line and one line for each object of the staff whose renderer gives a
\* non-empty string, in object order; the objects left with the default
\* renderer give no line.
C10_LinePerRenderedObject ==
  pc = "dumped" =>
    [i \in 1 .. Len(dumpObjects) |-> dumpObjects[i].k]
      = << "SongInfo" >> \o StaffKeywords(staves)

\* C10 witness: a staff with an object that gives no line, between two that do
C10_Witness ==
  /\ pc = "dumped" /\ Len(staves) = 1 /\ Len(staves[1].objects) = 3
  /\ Keyword(staves[1].objects[1]) = "Note"
  /\ Keyword(staves[1].objects[2]) = ""
  /\ Keyword(staves[1].objects[3]) = "Bar"
  /\ Len(dumpObjects) = 5

\* what the header says of staff i: there is no bitmask (the constant True
\* of versions below 130, or an empty field), or bit i of the one-byte mask
\* is set
MaskVisible(groupVisibility, i) ==
  \/ groupVisibility.t = "bool"
  \/ groupVisibility.v = << >>
  \/ Len(groupVisibility.v) = 1 /\ BitSet(groupVisibility.v[1], i)

\* the header was read to its end, and the bitmask is absent or one byte
HeaderHasMask ==
  /\ pc \notin { "parseContent", "parseHeader", "fileVersion", "headerFields" }
  /\ conv.numberOfStaves > 0
  /\ conv.groupVisibility.t = "bool" \/ Len(conv.groupVisibility.v) <= 1

\* C11: parseContent calls parseStaff for index i exactly when the header
\* has no visibility bitmask or bit i of the bitmask is set, in every
\* version: every index the loop has passed was decoded exactly when visible,
\* a run that stopped at an index below the staff count stopped inside that
\* staff's decoding, and the staff collection never holds more staves than
\* the header declares.
C11_StavesDecodedByMask ==
  HeaderHasMask =>
    /\ \A i \in 0 .. staffI - 1 :
          (i \in started) <=> MaskVisible(conv.groupVisibility, i)
    /\ (pc = "raised" /\ staffI < conv.numberOfStaves) => staffI \in started
    /\ Len(staves) <= conv.numberOfStaves

\* the last two calls were readLEShort with the advance flag set, the first
\* of them at a cursor with four bytes or more ahead
TwoShortReads ==
  /\ call.op = "readLEShort" /\ call.upd
  /\ call.prev.op = "readLEShort" /\ call.prev.upd
  /\ call.prev.before + 4 <= Len(fileContents)

\* C12: two consecutive readLEShort calls on a buffer holding two 2-byte
\* little-endian values each advance parsePosition by exactly 2 and return
\* the integer encoded by the two bytes at the cursor.
C12_TwoShortsRead ==
  TwoShortReads =>
    /\ call.prev.err = "none" /\ call.err = "none"
    /\ call.before = call.prev.before + 2
    /\ parsePosition = call.before + 2
    /\ call.prev.val = ShortAt(call.prev.before)
    /\ call.val = ShortAt(call.before)

\* C12 witness: the bytes 02 01 03 01 read as 258, then 259, cursor 4
C12_Witness ==
  /\ TwoShortReads
  /\ fileContents = << 2, 1, 3, 1 >>
  /\ call.prev.before = 0 /\ call.prev.val = 258
  /\ call.val = 259 /\ parsePosition = 4

\* the calls that take the advance flag
FlaggedReads ==
  { "readLEShort", "byteToInt", "byteToSignedInt", "readBytes", "readToNUL",
    "fileVersion" }

\* the last call was made with the advance flag false
NoAdvanceCall == call.op \in FlaggedReads /\ ~call.upd

\* the call before it was the same call, also with the flag false
RepeatedCall ==
  /\ NoAdvanceCall
  /\ call.prev.op = call.op /\ ~call.prev.upd /\ call.prev.n = call.n

\* C13: a read called with the advance flag false leaves parsePosition at
\* its value before the call, and the same call repeated gives the same
\* result.
C13_NoAdvanceKeepsCursor ==
  /\ NoAdvanceCall => parsePosition = call.before
  /\ RepeatedCall => call.val = call.prev.val /\ call.err = call.prev.err

\* the objects decoded so far: those of the staves kept and those of the
\* staff being decoded
DecodedObjects ==
  UNION { { s.objects[j] : j \in 1 .. Len(s.objects) } :
          s \in { staves[i] : i \in 1 .. Len(staves) } }
  \cup { objs.objects[j] : j \in 1 .. Len(objs.objects) }

NotesAndRests == { o \in DecodedObjects : o.type \in { "Note", "Rest" } }

\* the dot-attribute byte as it stands in the record: byte 0 of attribute1
\* for a Note, byte 3 of data2 for a Rest
RawDot(o) == IF o.type = "Note" THEN o.attribute1.v[1] ELSE o.data2.v[4]

HasSuffix(o, suffix) == \E j \in 1 .. Len(o.durationStr) : o.durationStr[j] = suffix

\* C14: dots is 2 when bit 0x01 of the dot-attribute byte is set, 1 when bit
\* 0x04 is set and bit 0x01 is clear, 0 when both are clear; the duration
\* string has the DblDotted suffix exactly when dots is 2 and the Dotted
\* suffix exactly when dots is 1.
C14_DotsFromAttribute ==
  \A o \in NotesAndRests :
    /\ o.dots = (IF RawDot(o) % 2 = 1 THEN 2
                 ELSE IF (RawDot(o) \div 4) % 2 = 1 THEN 1 ELSE 0)
    /\ HasSuffix(o, ",DblDotted") <=> o.dots = 2
    /\ HasSuffix(o, ",Dotted") <=> o.dots = 1

\* C14 witness: a document decoded to its end with a Rest whose
\* dot-attribute byte has both bits set, which got two dots
C14_Witness ==
  /\ pc = "parsed"
  /\ \E o \in NotesAndRests :
       /\ o.type = "Rest" /\ RawDot(o) = 5
       /\ o.dots = 2 /\ HasSuffix(o, ",DblDotted")

\* the block-size read of the last lyric slot begun failed (the buffer had
\* fewer than two bytes left) and the failure was caught
SizeReadFailed == lyr.i >= 1 /\ ~lyr.sizeRead /\ lyr.last # "none"

\* C15: when the block-size read of a lyric slot fails, the slot counts as
\* a zero-length block with no syllables and parseLyrics goes on to its end
\* and sets the staff's lyric list: no read failure reaches the caller.
C15_SizeFailureRecovered ==
  SizeReadFailed =>
    /\ lyr.lyricBlockSize = 0 /\ lyr.syllables = << >>
    /\ ~(pc = "raised" /\ lyr.last = "raised" /\ error = "struct.error")

\* the syllable at the cursor is empty: a zero byte stands there, or
\* nothing is left
EmptyAhead ==
  parsePosition >= Len(fileContents) \/ fileContents[parsePosition + 1] = 0

\* one more pass of the syllable loop: a read allowed by the loop test,
\* counted, and recorded unless it is empty, which ends the loop
ScanPass ==
  /\ lyr.continueIt /\ lyr.maxRead > 0
  /\ lyr'.maxRead = lyr.maxRead - 1
  /\ lyr'.continueIt = ~EmptyAhead
  /\ Len(lyr'.syllables) = Len(lyr.syllables) + (IF EmptyAhead THEN 0 ELSE 1)
  /\ \A j \in 1 .. Len(lyr'.syllables) : lyr'.syllables[j] # << >>

\* C16: the syllable scan of a lyric block makes at most 1000 readToNUL
\* calls on every buffer (each pass takes one from a count that starts at
\* 1000 and never goes below 0, whether or not a zero byte follows the
\* cursor), and it stops at the first empty syllable, which is not recorded.
C16_ScanTerminates ==
  [][ pc = "scan" =>
        /\ lyr.maxRead \in 0 .. 1000
        /\ pc' = "scan" => ScanPass
        /\ (~lyr.continueIt \/ lyr.maxRead = 0) => pc' # "scan" ]_vars

\* C16 witness: a scan that the count of reads ended, after 1000 syllables
\* none of which was empty
C16_Witness ==
  /\ pc = "parseLyrics" /\ lyr.last = "seek"
  /\ lyr.maxRead = 0 /\ lyr.continueIt
  /\ Len(lyr.lyrics[Len(lyr.lyrics)]) = 1000

Chords == { o \in DecodedObjects : o.type = "NoteChordMember" }

\* the count embedded in the prefix of a chord: byte 8 in version 175, no
\* count in the other versions
EmbeddedCount(o) == IF conv.version = 175 THEN o.data1.v[9] ELSE 0

\* C17: a decoded chord holds exactly as many children as its embedded
\* count says (none outside version 175), and every child is a Note record.
C17_ChordChildrenAreNotes ==
  \A o \in Chords :
    /\ Len(o.data2.v) = EmbeddedCount(o)
    /\ \A j \in 1 .. Len(o.data2.v) : o.data2.v[j].type = "Note"

\* a top-level object of a version 2.0 or 2.01 staff was decoded in the
\* last step: the cursor is where its decoder left it
JustDecoded ==
  /\ pc = "parseObject" /\ objs.i >= 1
  /\ lastObject.read /\ lastObject.err = "none"
  /\ conv.version \in { 200, 201 }

TheObject == objs.objects[objs.i]

\* the cursor's advance after the type tag and the visibility byte
Advance == parsePosition - (lastObject.at + 3)

\* the Instrument's name ended at a zero byte of the buffer
NameTerminated ==
  \E i \in lastObject.at + 11 .. Len(fileContents) - 1 : fileContents[i + 1] = 0

\* the record lengths of the fixed-length variants; 0 for a variant that
\* has none (or a Note with the stem-length flag 0x40)
RecordLength(o, midiInstruction) ==
  CASE o.type = "Clef" -> 4
    [] o.type = "KeySig" -> 10
    [] o.type \in { "Barline", "Ending" } -> 2
    [] o.type = "TimeSignature" -> 6
    [] o.type = "Dynamic" -> 7
    [] o.type = "Note" -> IF (o.attribute2 \div 64) % 2 = 1 THEN 0 ELSE 8
    [] o.type = "Rest" -> 8
    [] o.type = "Pedal" -> 3
    [] o.type = "FlowDir" -> 4
    [] o.type = "MPC" -> midiInstruction
    [] o.type = "RestChordMember" -> 10
    [] OTHER -> 0

StaffHeader175 ==
  /\ conv.version = 175
  /\ pc \in { "parseLyrics", "scan", "parseObjects", "parseObject" }

\* C19: in version 175 the staff's instrument name is entry patch - 1 of
\* the instrument-name table exactly when 1 <= patch <= the table's length,
\* and stays unset for every other patch byte, patch 0 included.
C19_PatchBoundsChecked ==
  StaffHeader175 =>
    IF thisStaff.instruPatch \in 1 .. Len(MidiInstruments)
    THEN thisStaff.instrumentName = PyStr(MidiInstruments[thisStaff.instruPatch])
    ELSE thisStaff.instrumentName = PyNone

\* the object rendered last is a Note without an alteration of its own, and
\* no explicitly altered Note of its staff was rendered before it
UnmarkedBeforeAnyAltered ==
  /\ lastDump.obj >= 0 /\ lastDump.line.k = "Note"
  /\ DumpedObject.alterationStr = ""
  /\ \A j \in 1 .. lastDump.obj :
       ~(DumpedObjects[j].type = "Note" /\ DumpedObjects[j].alterationStr # "")

\* C20: the alteration memory is emptied before each staff is rendered, so
\* a Note without an alteration of its own that comes before every
\* explicitly altered Note of its staff is rendered with no alteration,
\* whatever the staves rendered before ended with.
C20_MemoryEmptiedPerStaff ==
  /\ (pc = "dumpObject" /\ dumpPos.o = 0) => previousAlteration = NoAlteration
  /\ UnmarkedBeforeAnyAltered => lastDump.line.alt = ""

\* C20 witness: the first Note of the second staff, unmarked, rendered with
\* no alteration after the first staff ended with a sharp on its pitch class
C20_Witness ==
  /\ UnmarkedBeforeAnyAltered
  /\ lastDump.staff = 1 /\ lastDump.obj = 0
  /\ ExplicitAt(staves[1].objects[Len(staves[1].objects)], DumpedObject.pos % 7)
  /\ lastDump.line.alt = ""


====
